---- MODULE Spec2Model ----
(***************************************************************************)
(* Portfolio dashboard: synthetic portfolio generation, time-window        *)
(* filtering, weight resolution / portfolio returns, and the risk worker   *)
(* protocol between the useRiskWorker hook and the background worker.      *)
(*                                                                         *)
(* Numbers.  Returns are integers in units of 1e-4 (80 = 0.8% a month).    *)
(* Allocations are integer percentages that are multiples of AllocUnit, so *)
(* the factor allocation/100 is the exact fraction                         *)
(* (allocation / AllocUnit) / PerLevel, and an absolute weight is an       *)
(* integer numerator over WeightOne.  A portfolio return is the exact      *)
(* fraction [num, den].  Floating-point rounding is not modelled.          *)
(* Normal draws (jStat.normal.sample) are taken from a finite stream that  *)
(* is selected by a seed; the Cholesky mixing of the class draws is        *)
(* abstracted into that stream.                                            *)
(***************************************************************************)
EXTENDS Integers, Sequences, FiniteSets, TLC

VARIABLES
    now,                \* index into Clock: the wall-clock date
    portfolioData,      \* App state: the snapshot held (useState)
    allocations,        \* App state: AllocationSettings
    selectedTimePeriod, \* App state: selected TimePeriod
    results,            \* hook state: last results set by onmessage
    loading,            \* hook state
    error,              \* hook state
    inbox,              \* requests posted to the worker, not yet handled
    outbox,             \* responses posted by the worker, not yet delivered
    posted,             \* history: every message the worker ever posted
    issued,             \* history: number of calculate_risk requests posted
    lastGenerated,      \* DataGeneratorControls state: the parameters it shows
    lastFilter,         \* record of the last filterPortfolioDataByTimePeriod call
    lastGen,            \* record of the last generatePortfolioData call
    calc,               \* record of the last portfolio-return computation
    cache,              \* useMetricsCache: the cache state and the last value read
    slider,             \* ThreePartSlider: the values prop and the divider dragged
    page,               \* SliderTestPage: its three values and the active section
    walk                \* the parent walk of a leaf, step by step

vars == <<now, portfolioData, allocations, selectedTimePeriod, results,
          loading, error, inbox, outbox, posted, issued, lastGenerated,
          lastFilter, lastGen, calc, cache, slider, page, walk>>

\* The components modelled on their own
partVars == <<cache, slider, page, walk>>

appVars == <<allocations, selectedTimePeriod, results, loading, error,
             inbox, outbox, posted, issued, lastGenerated, cache, slider,
             page, walk>>

-----------------------------------------------------------------------------
(* Bounds of the model *)

NumSeeds == 2          \* number of distinct random streams
MaxRequests == 2       \* cap on calculate_risk requests in one behaviour
MaxGiven == 2          \* longest return series in a hand-built tree
MaxSeries == 3         \* longest series given to a metric function (long ones apart)
WeightDepth == 4       \* most allocation factors multiplied into one weight

-----------------------------------------------------------------------------
(* Small helpers *)

NoParent == "undefined"
Null == "null"

\* null / not yet set, for the variables that otherwise hold a record
NullValue == [isNull |-> TRUE]

Min(a, b) == IF a < b THEN a ELSE b

RECURSIVE Pow(_, _)
Pow(b, e) == IF e = 0 THEN 1 ELSE b * Pow(b, e - 1)

RECURSIVE SumSeq(_)
SumSeq(s) == IF s = <<>> THEN 0 ELSE Head(s) + SumSeq(Tail(s))


\* Array.prototype.slice(-n): the trailing n entries; -0 is 0, so slice(-0)
\* is slice(0), the whole array.
SliceFromEnd(s, n) ==
    IF n = 0 THEN s
    ELSE SubSeq(s, Len(s) - Min(n, Len(s)) + 1, Len(s))

-----------------------------------------------------------------------------
(* Dates: a Date is a day number (days since 1970-01-01), time of day is   *)
(* not modelled.  Months are 0-based as in JavaScript.                     *)

DaysFromCivil(y, m, d) ==
    LET yy  == IF m <= 1 THEN y - 1 ELSE y
        era == yy \div 400
        yoe == yy - era * 400
        mp  == IF m > 1 THEN m - 2 ELSE m + 10
        doy == (153 * mp + 2) \div 5 + d - 1
        doe == yoe * 365 + yoe \div 4 - yoe \div 100 + doy
    IN  era * 146097 + doe - 719468

CivilFromDays(z) ==
    LET zz  == z + 719468
        era == zz \div 146097
        doe == zz - era * 146097
        yoe == (doe - doe \div 1460 + doe \div 36524 - doe \div 146096) \div 365
        doy == doe - (365 * yoe + yoe \div 4 - yoe \div 100)
        mp  == (5 * doy + 2) \div 153
        d   == doy - (153 * mp + 2) \div 5 + 1
        m   == IF mp < 10 THEN mp + 2 ELSE mp - 10
        y   == yoe + era * 400 + (IF m <= 1 THEN 1 ELSE 0)
    IN  [y |-> y, m |-> m, d |-> d]

\* date.setMonth(date.getMonth() - n): month arithmetic with the day kept,
\* a day past the end of the target month rolls into the next month.
SetMonthBack(date, n) ==
    LET c   == CivilFromDays(date)
        tot == c.y * 12 + c.m - n
    IN  DaysFromCivil(tot \div 12, tot % 12, 1) + c.d - 1

\* new Date(now.getFullYear(), 0, 1)
StartOfYear(date) == DaysFromCivil(CivilFromDays(date).y, 0, 1)

\* The dates the wall clock passes through, in order.
Clock == << DaysFromCivil(2025, 0, 15), DaysFromCivil(2025, 2, 31),
            DaysFromCivil(2025, 6, 10), DaysFromCivil(2026, 0, 5) >>

Today == Clock[now]

-----------------------------------------------------------------------------
(* types.ts: nodes, trees, snapshots *)

TimePeriods == {"1M", "3M", "6M", "1Y", "3Y", "5Y", "10Y", "YTD"}
Scenarios == {"normal", "bullish", "bearish"}
VolatilityLevels == {"low", "medium", "high"}
BenchmarkNames == {"Market", "S&P500", "MSCI World"}

\* allocation / 100: a percentage.  Allocations are multiples of AllocUnit
\* percent, so one level of the hierarchy contributes a factor k / PerLevel.
Percent == 100
AllocUnit == Percent \div 10
PerLevel == Percent \div AllocUnit
WeightOne == Pow(PerLevel, WeightDepth)

AssetClassNode(id, allocation, parent, children) ==
    [id |-> id, allocation |-> allocation, parent |-> parent,
     hasChildren |-> TRUE, children |-> children,
     hasReturns |-> FALSE, returns |-> <<>>]

AssetNode(id, allocation, parent, returns) ==
    [id |-> id, allocation |-> allocation, parent |-> parent,
     hasChildren |-> FALSE, children |-> <<>>,
     hasReturns |-> TRUE, returns |-> returns]

\* A tree is a root key and a table of nodes; children are sequences of keys.
MakeTree(root, nodeSeq) ==
    [root |-> root,
     nodes |-> [k \in {nodeSeq[i].id : i \in DOMAIN nodeSeq} |->
                  (CHOOSE n \in {nodeSeq[i] : i \in DOMAIN nodeSeq} : n.id = k)]]

-----------------------------------------------------------------------------
(* dataGenerator.ts *)

AssetClassNames == << "AUD-Denominated Equities", "FX-Denominated Equities",
                      "Sovereign FI", "Non-Sovereign FI", "Real Estate",
                      "Infrastructure", "Private Equity" >>

ClassIndex(name) == CHOOSE i \in DOMAIN AssetClassNames : AssetClassNames[i] = name

\* meanReturn and volatility in units of 1e-4
baseAssetClassParams ==
    << [meanReturn |-> 80,  volatility |-> 450],
       [meanReturn |-> 90,  volatility |-> 500],
       [meanReturn |-> 30,  volatility |-> 200],
       [meanReturn |-> 40,  volatility |-> 250],
       [meanReturn |-> 60,  volatility |-> 300],
       [meanReturn |-> 70,  volatility |-> 250],
       [meanReturn |-> 100, volatility |-> 600] >>

\* multipliers in tenths
scenarioAdjustments ==
    [normal  |-> [returnMultiplier |-> 10, volatilityMultiplier |-> 10],
     bullish |-> [returnMultiplier |-> 15, volatilityMultiplier |-> 8],
     bearish |-> [returnMultiplier |-> 5,  volatilityMultiplier |-> 13]]

volatilityAdjustments == [low |-> 7, medium |-> 10, high |-> 15]

getAdjustedAssetClassParams(scenario, volatilityLevel) ==
    LET scenarioAdj   == scenarioAdjustments[scenario]
        volatilityAdj == volatilityAdjustments[volatilityLevel]
    IN  [i \in DOMAIN baseAssetClassParams |->
          [meanReturn |-> (baseAssetClassParams[i].meanReturn
                             * scenarioAdj.returnMultiplier) \div 10,
           volatility |-> (baseAssetClassParams[i].volatility
                             * scenarioAdj.volatilityMultiplier
                             * volatilityAdj) \div 100]]

\* jStat.normal.sample(0, 1): the draw number m of stream `stream` under
\* `seed`, one of -1, 0, 1.
StandardNormal(seed, stream, m) ==
    ((((m + 1) * (m + 1) + seed * (m + 1) + stream) % 11) % 3) - 1

\* jStat.normal.sample(mean, sd)
NormalSample(mean, sd, seed, stream, m) == mean + sd * StandardNormal(seed, stream, m)

\* One series of `months` returns per asset class: mean + correlated draw.
generateCorrelatedReturns(months, scenario, volatilityLevel, seed) ==
    LET assetClassParams == getAdjustedAssetClassParams(scenario, volatilityLevel)
    IN  [i \in DOMAIN AssetClassNames |->
          [m \in 1..months |->
             NormalSample(assetClassParams[i].meanReturn,
                          assetClassParams[i].volatility, seed, i, m)]]

\* baseReturns.map(r => r + sample(0, classVolatility * volatilityFactor));
\* volatilityFactor in hundredths
generateAssetReturns(assetClassName, baseReturns, volatilityFactor, scenario, volatilityLevel, seed, stream) ==
    LET assetClassParams == getAdjustedAssetClassParams(scenario, volatilityLevel)
        sd == (assetClassParams[ClassIndex(assetClassName)].volatility
                 * volatilityFactor) \div 100
    IN  [m \in 1..Len(baseReturns) |->
           baseReturns[m] + NormalSample(0, sd, seed, stream, m)]

\* (mean, volatility) of the three benchmarks, units of 1e-4
BenchmarkBase ==
    [b \in BenchmarkNames |->
       CASE b = "Market"     -> [meanReturn |-> 70, volatility |-> 400, stream |-> 31]
         [] b = "S&P500"     -> [meanReturn |-> 80, volatility |-> 450, stream |-> 32]
         [] b = "MSCI World" -> [meanReturn |-> 75, volatility |-> 420, stream |-> 33]]

\* Variant: the catch block returns empty series.
generateBenchmarkReturns_empty(months, scenario, volatilityLevel, seed, throws) ==
    LET scenarioAdj   == scenarioAdjustments[scenario]
        volatilityAdj == volatilityAdjustments[volatilityLevel]
    IN  IF throws
        THEN [b \in BenchmarkNames |-> [returns |-> <<>>]]
        ELSE [b \in BenchmarkNames |->
               [returns |->
                 [m \in 1..months |->
                    NormalSample(
                      (BenchmarkBase[b].meanReturn * scenarioAdj.returnMultiplier) \div 10,
                      (BenchmarkBase[b].volatility * scenarioAdj.volatilityMultiplier
                         * volatilityAdj) \div 100,
                      seed, BenchmarkBase[b].stream, m)]]]

\* throws: an exception is raised inside the try block (by a draw); the
\* catch block then returns zero-filled series of length months.
generateBenchmarkReturns(months, scenario, volatilityLevel, seed, throws) ==
    LET scenarioAdj   == scenarioAdjustments[scenario]
        volatilityAdj == volatilityAdjustments[volatilityLevel]
    IN  IF throws
        THEN [b \in BenchmarkNames |-> [returns |-> [m \in 1..months |-> 0]]]
        ELSE [b \in BenchmarkNames |->
               [returns |->
                 [m \in 1..months |->
                    NormalSample(
                      (BenchmarkBase[b].meanReturn * scenarioAdj.returnMultiplier) \div 10,
                      (BenchmarkBase[b].volatility * scenarioAdj.volatilityMultiplier
                         * volatilityAdj) \div 100,
                      seed, BenchmarkBase[b].stream, m)]]]

\* The sixteen individual assets of the generated tree:
\* id, asset class, allocation, volatility factor (hundredths), parent.
GeneratedAssets ==
    << [id |-> "aud-equity-1",     class |-> "AUD-Denominated Equities", allocation |-> 40, factor |-> 20, parent |-> "aud-equities"],
       [id |-> "aud-equity-2",     class |-> "AUD-Denominated Equities", allocation |-> 30, factor |-> 30, parent |-> "aud-equities"],
       [id |-> "aud-equity-3",     class |-> "AUD-Denominated Equities", allocation |-> 30, factor |-> 40, parent |-> "aud-equities"],
       [id |-> "fx-equity-1",      class |-> "FX-Denominated Equities",  allocation |-> 50, factor |-> 20, parent |-> "fx-equities"],
       [id |-> "fx-equity-2",      class |-> "FX-Denominated Equities",  allocation |-> 30, factor |-> 30, parent |-> "fx-equities"],
       [id |-> "fx-equity-3",      class |-> "FX-Denominated Equities",  allocation |-> 20, factor |-> 25, parent |-> "fx-equities"],
       [id |-> "sovereign-1",      class |-> "Sovereign FI",             allocation |-> 60, factor |-> 15, parent |-> "sovereign-fi"],
       [id |-> "sovereign-2",      class |-> "Sovereign FI",             allocation |-> 40, factor |-> 10, parent |-> "sovereign-fi"],
       [id |-> "non-sovereign-1",  class |-> "Non-Sovereign FI",         allocation |-> 70, factor |-> 20, parent |-> "non-sovereign-fi"],
       [id |-> "non-sovereign-2",  class |-> "Non-Sovereign FI",         allocation |-> 30, factor |-> 40, parent |-> "non-sovereign-fi"],
       [id |-> "real-estate-1",    class |-> "Real Estate",              allocation |-> 60, factor |-> 25, parent |-> "real-estate"],
       [id |-> "real-estate-2",    class |-> "Real Estate",              allocation |-> 40, factor |-> 20, parent |-> "real-estate"],
       [id |-> "infrastructure-1", class |-> "Infrastructure",           allocation |-> 50, factor |-> 30, parent |-> "infrastructure"],
       [id |-> "infrastructure-2", class |-> "Infrastructure",           allocation |-> 50, factor |-> 25, parent |-> "infrastructure"],
       [id |-> "private-equity-1", class |-> "Private Equity",           allocation |-> 40, factor |-> 50, parent |-> "private-equity"],
       [id |-> "private-equity-2", class |-> "Private Equity",           allocation |-> 60, factor |-> 40, parent |-> "private-equity"] >>

\* Variant: both equity classes take allocations.audVsFx.
GeneratedClasses_sameSplit(a) ==
    << AssetClassNode("whole-portfolio", 100, NoParent,
                      <<"public-assets", "private-assets">>),
       AssetClassNode("public-assets", a.publicVsPrivate, NoParent,
                      <<"equities", "fixed-income">>),
       AssetClassNode("equities", a.equitiesVsFixedIncome, "public-assets",
                      <<"aud-equities", "fx-equities">>),
       AssetClassNode("aud-equities", a.audVsFx, "equities",
                      <<"aud-equity-1", "aud-equity-2", "aud-equity-3">>),
       AssetClassNode("fx-equities", a.audVsFx, "equities",
                      <<"fx-equity-1", "fx-equity-2", "fx-equity-3">>),
       AssetClassNode("fixed-income", 100 - a.equitiesVsFixedIncome, "public-assets",
                      <<"sovereign-fi", "non-sovereign-fi">>),
       AssetClassNode("sovereign-fi", a.sovereignVsNonSovereign, "fixed-income",
                      <<"sovereign-1", "sovereign-2">>),
       AssetClassNode("non-sovereign-fi", 100 - a.sovereignVsNonSovereign, "fixed-income",
                      <<"non-sovereign-1", "non-sovereign-2">>),
       AssetClassNode("private-assets", 100 - a.publicVsPrivate, NoParent,
                      <<"real-estate", "infrastructure", "private-equity">>),
       AssetClassNode("real-estate", a.privateAllocation.realEstate, "private-assets",
                      <<"real-estate-1", "real-estate-2">>),
       AssetClassNode("infrastructure", a.privateAllocation.infrastructure, "private-assets",
                      <<"infrastructure-1", "infrastructure-2">>),
       AssetClassNode("private-equity", a.privateAllocation.privateEquity, "private-assets",
                      <<"private-equity-1", "private-equity-2">>) >>

\* The asset classes of the generated tree, as the object literal nests them.
\* Neither child of the root carries a parent field.
GeneratedClasses(a) ==
    << AssetClassNode("whole-portfolio", 100, NoParent,
                      <<"public-assets", "private-assets">>),
       AssetClassNode("public-assets", a.publicVsPrivate, NoParent,
                      <<"equities", "fixed-income">>),
       AssetClassNode("equities", a.equitiesVsFixedIncome, "public-assets",
                      <<"aud-equities", "fx-equities">>),
       AssetClassNode("aud-equities", a.audVsFx, "equities",
                      <<"aud-equity-1", "aud-equity-2", "aud-equity-3">>),
       AssetClassNode("fx-equities", 100 - a.audVsFx, "equities",
                      <<"fx-equity-1", "fx-equity-2", "fx-equity-3">>),
       AssetClassNode("fixed-income", 100 - a.equitiesVsFixedIncome, "public-assets",
                      <<"sovereign-fi", "non-sovereign-fi">>),
       AssetClassNode("sovereign-fi", a.sovereignVsNonSovereign, "fixed-income",
                      <<"sovereign-1", "sovereign-2">>),
       AssetClassNode("non-sovereign-fi", 100 - a.sovereignVsNonSovereign, "fixed-income",
                      <<"non-sovereign-1", "non-sovereign-2">>),
       AssetClassNode("private-assets", 100 - a.publicVsPrivate, NoParent,
                      <<"real-estate", "infrastructure", "private-equity">>),
       AssetClassNode("real-estate", a.privateAllocation.realEstate, "private-assets",
                      <<"real-estate-1", "real-estate-2">>),
       AssetClassNode("infrastructure", a.privateAllocation.infrastructure, "private-assets",
                      <<"infrastructure-1", "infrastructure-2">>),
       AssetClassNode("private-equity", a.privateAllocation.privateEquity, "private-assets",
                      <<"private-equity-1", "private-equity-2">>) >>

Snapshot(id, tree, startDate, endDate, benchmarks) ==
    [id |-> id, wholePortfolio |-> tree,
     timeframe |-> [startDate |-> startDate, endDate |-> endDate],
     benchmarks |-> benchmarks,
     scenario |-> Null, volatilityLevel |-> Null, months |-> -1]

\* The stages of generatePortfolioData at which an exception can be raised.
ThrowStages == {"none", "params", "correlated", "benchmarks", "tree"}

\* The catch block of generatePortfolioData.
MinimalSnapshot(months, date) ==
    Snapshot("portfolio-error",
             MakeTree("whole-portfolio",
                      << AssetClassNode("whole-portfolio", 100, NoParent, <<>>) >>),
             date - months * 30, date,
             [b \in BenchmarkNames |-> [returns |-> <<>>]])

generatePortfolioData(months, scenario, volatilityLevel, a, seed, throwAt, date) ==
    IF throwAt \in {"params", "correlated", "tree"}
    THEN MinimalSnapshot(months, date)
    ELSE
      LET assetClassReturns ==
              generateCorrelatedReturns(months, scenario, volatilityLevel, seed)
          benchmarkReturns ==
              generateBenchmarkReturns(months, scenario, volatilityLevel, seed,
                                       throwAt = "benchmarks")
          assets ==
              [j \in DOMAIN GeneratedAssets |->
                 AssetNode(GeneratedAssets[j].id, GeneratedAssets[j].allocation,
                           GeneratedAssets[j].parent,
                           generateAssetReturns(GeneratedAssets[j].class,
                               assetClassReturns[ClassIndex(GeneratedAssets[j].class)],
                               GeneratedAssets[j].factor, scenario, volatilityLevel,
                               seed, 10 + j))]
      IN  Snapshot("portfolio",
                   MakeTree("whole-portfolio", GeneratedClasses(a) \o assets),
                   SetMonthBack(date, months), date, benchmarkReturns)

defaultAllocations ==
    [publicVsPrivate |-> 70, equitiesVsFixedIncome |-> 60, audVsFx |-> 60,
     sovereignVsNonSovereign |-> 60,
     privateAllocation |-> [realEstate |-> 40, infrastructure |-> 30,
                            privateEquity |-> 30]]

-----------------------------------------------------------------------------
(* portfolioUtils.ts *)

\* The traversal shared by filterAssetReturns and extractAssets: descend
\* through nodes that have a non-empty children array, and stop, in
\* pre-order, at every other node.
RECURSIVE Bottoms(_, _)
RECURSIVE BottomsOfAll(_, _)
Bottoms(tree, key) ==
    LET node == tree.nodes[key]
    IN  IF node.hasChildren /\ Len(node.children) > 0
        THEN BottomsOfAll(tree, node.children)
        ELSE <<key>>
BottomsOfAll(tree, keys) ==
    IF keys = <<>> THEN <<>>
    ELSE Bottoms(tree, Head(keys)) \o BottomsOfAll(tree, Tail(keys))

SeqToSet(s) == {s[i] : i \in DOMAIN s}

\* JSON.parse(JSON.stringify(data)): a fresh object tree in which a Date has
\* become its ISO string; everything else in a snapshot is numbers, strings,
\* arrays and objects and comes back as it was.
JsonRoundTrip(data) ==
    [data EXCEPT !.timeframe =
        [startDate |-> [iso |-> data.timeframe.startDate],
         endDate   |-> [iso |-> data.timeframe.endDate]]]

\* new Date(isoString)
DateFromIso(str) == str.iso

switchMonthsToInclude(timePeriod, date) ==
    CASE timePeriod = "1M"  -> 1
      [] timePeriod = "3M"  -> 3
      [] timePeriod = "6M"  -> 6
      [] timePeriod = "1Y"  -> 12
      [] timePeriod = "3Y"  -> 36
      [] timePeriod = "5Y"  -> 60
      [] timePeriod = "10Y" -> 120
      [] timePeriod = "YTD" -> (date - StartOfYear(date)) \div 30
      [] OTHER              -> 12

\* filterAssetReturns applied from the root: every node the traversal stops
\* at that has a returns field keeps its trailing monthsToInclude entries.
filterAssetReturns(tree, monthsToInclude) ==
    LET stops == SeqToSet(Bottoms(tree, tree.root))
    IN  [tree EXCEPT !.nodes =
          [k \in DOMAIN tree.nodes |->
             IF k \in stops /\ tree.nodes[k].hasReturns
             THEN [tree.nodes[k] EXCEPT
                     !.returns = SliceFromEnd(tree.nodes[k].returns, monthsToInclude)]
             ELSE tree.nodes[k]]]

\* Variant: the benchmark series are not cut.
filterBenchmarks_uncut(benchmarks, monthsToInclude) ==
    [b \in DOMAIN benchmarks |-> benchmarks[b]]

filterBenchmarks(benchmarks, monthsToInclude) ==
    [b \in DOMAIN benchmarks |->
       [benchmarks[b] EXCEPT
          !.returns = SliceFromEnd(benchmarks[b].returns, monthsToInclude)]]

\* The body of the try block, working on the deep copy.
FilteredCopy(data, timePeriod, date) ==
    LET parsed == JsonRoundTrip(data)
        filteredData ==
            [parsed EXCEPT !.timeframe =
                [startDate |-> DateFromIso(parsed.timeframe.startDate),
                 endDate   |-> DateFromIso(parsed.timeframe.endDate)]]
        monthsToInclude == switchMonthsToInclude(timePeriod, date)
    IN  [filteredData EXCEPT
           !.wholePortfolio = filterAssetReturns(filteredData.wholePortfolio,
                                                 monthsToInclude),
           !.benchmarks = filterBenchmarks(filteredData.benchmarks, monthsToInclude),
           !.timeframe.startDate = SetMonthBack(filteredData.timeframe.endDate,
                                                monthsToInclude)]

\* Variant: no deep copy, the filter works on the object it was given.
filterPortfolioDataByTimePeriod_inPlace(data, timePeriod, date, throws) ==
    IF throws
    THEN [arg |-> data, ret |-> data]
    ELSE [arg |-> FilteredCopy(data, timePeriod, date),
          ret |-> FilteredCopy(data, timePeriod, date)]

\* One call.  arg is the object that was passed in as it is after the call,
\* ret is the object returned.  throws: an exception is raised inside the try
\* block, and the catch block returns the argument itself.
filterPortfolioDataByTimePeriod(data, timePeriod, date, throws) ==
    IF throws
    THEN [arg |-> data, ret |-> data]
    ELSE [arg |-> data, ret |-> FilteredCopy(data, timePeriod, date)]

-----------------------------------------------------------------------------
(* performanceCalculations.ts and the risk worker: weights and returns *)

\* findNodeById: depth-first, pre-order search for the first node whose id
\* field is id; Null when there is none.
RECURSIVE findNodeById(_, _, _)
RECURSIVE findInChildren(_, _, _)
findNodeById(tree, key, id) ==
    LET node == tree.nodes[key]
    IN  IF node.id = id THEN key
        ELSE IF node.hasChildren /\ Len(node.children) > 0
             THEN findInChildren(tree, node.children, id)
             ELSE Null
findInChildren(tree, keys, id) ==
    IF keys = <<>> THEN Null
    ELSE LET found == findNodeById(tree, Head(keys), id)
         IN  IF found # Null THEN found
             ELSE findInChildren(tree, Tail(keys), id)

\* allocation / 100 as a numerator over WeightOne
FirstFactor(allocation) ==
    (allocation \div AllocUnit) * (WeightOne \div PerLevel)

\* weight *= allocation / 100
TimesFactor(weight, allocation) ==
    (weight * (allocation \div AllocUnit)) \div PerLevel

RECURSIVE climb(_, _, _)
\* Variant: "if (parent)" in place of "while (parent)", one step only.
climb_once(tree, weight, parent) ==
    IF parent = NoParent THEN weight
    ELSE LET parentNode == findNodeById(tree, tree.root, parent)
         IN  IF parentNode # Null
             THEN TimesFactor(weight, tree.nodes[parentNode].allocation)
             ELSE weight

\* while (parent) { ... }: climb the parent references, multiplying in the
\* allocation of every ancestor found; stop at a node without parent or at an
\* id that does not resolve.
climb(tree, weight, parent) ==
    IF parent = NoParent THEN weight
    ELSE LET parentNode == findNodeById(tree, tree.root, parent)
         IN  IF parentNode # Null
             THEN climb(tree, TimesFactor(weight, tree.nodes[parentNode].allocation),
                        tree.nodes[parentNode].parent)
             ELSE weight

\* The absolute weight of an asset, numerator over WeightOne.
absoluteWeight(tree, key) ==
    climb(tree, FirstFactor(tree.nodes[key].allocation), tree.nodes[key].parent)

\* extractAssets: the nodes the traversal stops at that have no children field.
extractAssets(tree) ==
    SelectSeq(Bottoms(tree, tree.root), LAMBDA k : ~tree.nodes[k].hasChildren)

\* Variant: every asset counts with weight 1, whatever its allocation.
assetWeights_unweighted(tree, assets) ==
    [j \in DOMAIN assets |-> WeightOne] \o <<>>

\* The weight of every asset.  The loop recomputes it for every period; it
\* does not depend on the period, so it is computed once here.
assetWeights(tree, assets) ==
    [j \in DOMAIN assets |-> absoluteWeight(tree, assets[j])] \o <<>>

\* One pass of assets.forEach for period i (1-based), from asset j on: the
\* running sums weightedReturn and totalWeight over the assets that have an
\* entry at i.
RECURSIVE forEachAsset(_, _, _, _, _, _)
forEachAsset(tree, assets, weights, i, j, acc) ==
    IF j > Len(assets) THEN acc
    ELSE LET asset == tree.nodes[assets[j]]
         IN  forEachAsset(tree, assets, weights, i, j + 1,
                IF i <= Len(asset.returns)
                THEN [weightedReturn |-> acc.weightedReturn + weights[j] * asset.returns[i],
                      totalWeight    |-> acc.totalWeight + weights[j]]
                ELSE acc)

\* weightedReturn / totalWeight kept as an exact fraction; 0 is 0/1.
Fraction(num, den) == [num |-> num, den |-> den]

\* The number of periods the loop runs for: assets[0].returns.length
loopLength(tree, assets) == Len(tree.nodes[assets[1]].returns)

\* for (let i = 0; i < assets[0].returns.length; i++) { ... }
portfolioReturnsLoop(tree, assets) ==
    LET weights == assetWeights(tree, assets)
    IN  [i \in 1..loopLength(tree, assets) |->
           LET sums == forEachAsset(tree, assets, weights, i, 1,
                                    [weightedReturn |-> 0, totalWeight |-> 0])
           IN  IF sums.totalWeight > 0
               THEN Fraction(sums.weightedReturn, sums.totalWeight)
               ELSE Fraction(0, 1)]

\* if (assets.length === 0 || assets[0].returns.length === 0)
noReturnData(tree, assets) ==
    Len(assets) = 0 \/ Len(tree.nodes[assets[1]].returns) = 0

\* calculatePortfolioReturns: the empty list when there is no return data.
calculatePortfolioReturns(data) ==
    LET tree   == data.wholePortfolio
        assets == extractAssets(tree)
    IN  IF noReturnData(tree, assets) THEN <<>>
        ELSE portfolioReturnsLoop(tree, assets)

-----------------------------------------------------------------------------
(* Numbers of the metric functions.  A JavaScript number is modelled as    *)
(* NaN, as an infinity, or as the exact real q * sqrt(v) with q = n/d and  *)
(* v = vn/vd rationals in lowest terms (v = 1 for a rational number).      *)
(* Rounding is not modelled.                                               *)

Abs(x) == IF x < 0 THEN -x ELSE x

RECURSIVE Gcd(_, _)
Gcd(a, b) == IF b = 0 THEN a ELSE Gcd(b, a % b)

NaN == [kind |-> "nan", n |-> 0, d |-> 1, vn |-> 1, vd |-> 1]

\* +Infinity (sign 1) and -Infinity (sign -1)
Infinity(sign) == [kind |-> "inf", n |-> sign, d |-> 1, vn |-> 1, vd |-> 1]

\* (n/d) * sqrt(vn/vd), d > 0, vn > 0, vd > 0, in lowest terms; zero is 0/1.
Surd(n, d, vn, vd) ==
    IF n = 0 THEN [kind |-> "num", n |-> 0, d |-> 1, vn |-> 1, vd |-> 1]
    ELSE LET g == Gcd(Abs(n), Abs(d))
             h == Gcd(vn, vd)
             s == IF d < 0 THEN -1 ELSE 1
         IN  [kind |-> "num", n |-> s * (n \div g), d |-> s * (d \div g),
              vn |-> vn \div h, vd |-> vd \div h]

\* The rational n/d, d # 0
Rat(n, d) == Surd(n, d, 1, 1)

Zero == Rat(0, 1)

\* x === 0
IsZero(x) == x.kind = "num" /\ x.n = 0

\* -1, 0 or 1; NaN has no sign.
SignOf(x) == IF x.n > 0 THEN 1 ELSE IF x.n < 0 THEN -1 ELSE 0

Neg(x) == IF x.kind = "nan" THEN NaN ELSE [x EXCEPT !.n = -x.n]

\* x + y.  Two non-zero reals are added only when they carry the same
\* square root, which is the case everywhere the functions below add.
Add(x, y) ==
    IF x.kind = "nan" \/ y.kind = "nan" THEN NaN
    ELSE IF x.kind = "inf" /\ y.kind = "inf"
         THEN IF x.n = y.n THEN x ELSE NaN
    ELSE IF x.kind = "inf" THEN x
    ELSE IF y.kind = "inf" THEN y
    ELSE IF x.n = 0 THEN y
    ELSE IF y.n = 0 THEN x
    ELSE LET v == CHOOSE w \in {<<x.vn, x.vd>>} : w = <<y.vn, y.vd>>
             g == Gcd(x.d, y.d)
         IN  Surd(x.n * (y.d \div g) + y.n * (x.d \div g),
                  (x.d \div g) * y.d, v[1], v[2])

Sub(x, y) == Add(x, Neg(y))

\* (n/d) * sqrt(v) * sqrt(v) = (n/d) * v for v = vn/vd
TimesRadicand(n, d, vn, vd) ==
    Surd((n \div Gcd(Abs(n), vd)) * (vn \div Gcd(vn, d)),
         (d \div Gcd(vn, d)) * (vd \div Gcd(Abs(n), vd)), 1, 1)

\* (n/d) * sqrt(x's v) * sqrt(y's v)
TimesRoots(x, y, n, d) ==
    IF <<x.vn, x.vd>> = <<y.vn, y.vd>>
    THEN TimesRadicand(n, d, x.vn, x.vd)
    ELSE Surd(n, d, x.vn * y.vn, x.vd * y.vd)

Mul(x, y) ==
    IF x.kind = "nan" \/ y.kind = "nan" THEN NaN
    ELSE IF x.kind = "inf" \/ y.kind = "inf"
         THEN IF x.n = 0 \/ y.n = 0 THEN NaN
              ELSE Infinity(SignOf(x) * SignOf(y))
    ELSE IF x.n = 0 \/ y.n = 0 THEN Zero
    ELSE TimesRoots(x, y,
            (x.n \div Gcd(Abs(x.n), y.d)) * (y.n \div Gcd(Abs(y.n), x.d)),
            (x.d \div Gcd(Abs(y.n), x.d)) * (y.d \div Gcd(Abs(x.n), y.d)))

\* 1 / y for a finite non-zero y: (d/n) / sqrt(v) = (d*vd / (n*vn)) * sqrt(v)
Inverse(y) == Surd(y.d * y.vd, y.n * y.vn, y.vn, y.vd)

\* x / y: 0/0 is NaN, x/0 is an infinity
Div(x, y) ==
    IF x.kind = "nan" \/ y.kind = "nan" THEN NaN
    ELSE IF y.kind = "inf"
         THEN IF x.kind = "inf" THEN NaN ELSE Zero
    ELSE IF x.kind = "inf"
         THEN Infinity(IF SignOf(y) < 0 THEN -x.n ELSE x.n)
    ELSE IF y.n = 0
         THEN IF x.n = 0 THEN NaN ELSE Infinity(SignOf(x))
    ELSE IF x.n = 0 THEN Zero
    ELSE IF <<x.vn, x.vd>> = <<y.vn, y.vd>>
         THEN \* the square roots cancel
              LET g1 == Gcd(Abs(x.n), Abs(y.n))
                  g2 == Gcd(x.d, y.d)
              IN  Rat((x.n \div g1) * (y.d \div g2), (x.d \div g2) * (y.n \div g1))
    ELSE Mul(x, Inverse(y))

\* Math.sqrt of a rational
Sqrt(x) ==
    IF x.kind = "nan" THEN NaN
    ELSE IF x.kind = "inf" THEN IF x.n > 0 THEN x ELSE NaN
    ELSE IF x.n < 0 THEN NaN
    ELSE IF x.n = 0 THEN Zero
    ELSE Surd(1, 1, x.n, x.d)

\* x > y (false when either is NaN); both rational or both on one square root
Gt(x, y) == x.kind # "nan" /\ y.kind # "nan" /\ SignOf(Sub(x, y)) > 0

\* Math.max(x, y)
MathMax(x, y) ==
    IF x.kind = "nan" \/ y.kind = "nan" THEN NaN
    ELSE IF Gt(y, x) THEN y ELSE x

RECURSIVE SumNum(_)
SumNum(s) == IF s = <<>> THEN Zero ELSE Add(Head(s), SumNum(Tail(s)))

-----------------------------------------------------------------------------
(* riskCalculations.ts: the metric functions.  A series is a sequence of   *)
(* numbers, or NullSeries, which stands for null and undefined.            *)

NullSeries == << [kind |-> "null", n |-> 0, d |-> 1, vn |-> 1, vd |-> 1] >>

\* The outcome of an evaluation that raises an exception.
Raised == [kind |-> "raised", n |-> 0, d |-> 1, vn |-> 1, vd |-> 1]

\* try { return body } catch (error) { return 0 }
Catch0(body) == IF body.kind = "raised" THEN Zero ELSE body

\* arr[i] (1-based here); undefined, which arithmetic turns into NaN, when
\* there is no such entry
At(arr, i) == IF i \in DOMAIN arr THEN arr[i] ELSE NaN

\* !returns || returns.length === 0
NoSeries(returns) == returns = NullSeries \/ Len(returns) = 0

\* Variant: the lengths of the two series are not compared.
NoPair_anyLengths(returns1, returns2) ==
    \/ returns1 = NullSeries
    \/ returns2 = NullSeries
    \/ Len(returns1) = 0
    \/ Len(returns2) = 0

\* !a || !b || a.length === 0 || b.length === 0 || a.length !== b.length
NoPair(returns1, returns2) ==
    \/ returns1 = NullSeries
    \/ returns2 = NullSeries
    \/ Len(returns1) = 0
    \/ Len(returns2) = 0
    \/ Len(returns1) # Len(returns2)

\* jStat.mean: sum / length
jStatMean(arr) == Div(SumNum(arr), Rat(Len(arr), 1))

\* jStat.sumsqerr: the sum of the squared deviations from the mean
jStatSumsqerr(arr) ==
    LET mean == jStatMean(arr)
    IN  SumNum([i \in DOMAIN arr |-> Mul(Sub(arr[i], mean), Sub(arr[i], mean))])

\* jStat.variance(arr, true): the sample variance, sumsqerr / (length - 1)
jStatVariance(arr) == Div(jStatSumsqerr(arr), Rat(Len(arr) - 1, 1))

\* jStat.stdev(arr, true)
jStatStdev(arr) == Sqrt(jStatVariance(arr))

calculateVolatility(returns) ==
    IF NoSeries(returns) THEN Zero
    ELSE Catch0(jStatStdev(returns))

\* returns.reduce(...): the running product of (1 + ret)
RECURSIVE cumulativeReturnsOf(_, _, _)
cumulativeReturnsOf(returns, i, acc) ==
    IF i > Len(returns) THEN acc
    ELSE cumulativeReturnsOf(returns, i + 1,
            Append(acc, IF i = 1 THEN Add(Rat(1, 1), returns[i])
                        ELSE Mul(acc[i - 1], Add(Rat(1, 1), returns[i]))))

\* The loop of calculateMaxDrawdown from index i (1-based) on.
RECURSIVE drawdownLoop(_, _, _, _)
drawdownLoop(cumulativeReturns, i, peak, maxDrawdown) ==
    IF i > Len(cumulativeReturns) THEN maxDrawdown
    ELSE IF Gt(cumulativeReturns[i], peak)
         THEN drawdownLoop(cumulativeReturns, i + 1, cumulativeReturns[i], maxDrawdown)
         ELSE LET drawdown == Div(Sub(peak, cumulativeReturns[i]), peak)
              IN  drawdownLoop(cumulativeReturns, i + 1, peak,
                               MathMax(maxDrawdown, drawdown))

\* Variant: the loop runs over the returns, not over their running product.
calculateMaxDrawdown_ofReturns(returns) ==
    IF NoSeries(returns) THEN Zero
    ELSE Catch0(drawdownLoop(returns, 2, returns[1], Zero))

calculateMaxDrawdown(returns) ==
    IF NoSeries(returns) THEN Zero
    ELSE LET cumulativeReturns == cumulativeReturnsOf(returns, 1, <<>>)
         IN  Catch0(drawdownLoop(cumulativeReturns, 2, cumulativeReturns[1], Zero))

\* Position of arr[i] after the stable ascending sort [...arr].sort((a, b) => a - b)
SortedPosition(arr, i) ==
    Cardinality({ j \in DOMAIN arr : Gt(arr[i], arr[j]) \/ (j < i /\ ~Gt(arr[j], arr[i])) }) + 1

\* Variant: the copy is not sorted.
SortAsc_unsorted(arr) == arr

SortAsc(arr) ==
    LET position == [i \in DOMAIN arr |-> SortedPosition(arr, i)] \o <<>>
    IN  [k \in DOMAIN arr |-> arr[CHOOSE i \in DOMAIN arr : position[i] = k]] \o <<>>

\* confidenceLevel is given in percent (95 for 0.95):
\* index = Math.floor(length * (1 - confidenceLevel))
calculateValueAtRisk(returns, confidenceLevel) ==
    IF NoSeries(returns) THEN Zero
    ELSE LET sortedReturns == SortAsc(returns)
             index == (Len(sortedReturns) * (100 - confidenceLevel)) \div 100
         IN  Catch0(Neg(At(sortedReturns, index + 1)))

calculateTrackingError(portfolioReturns, benchmarkReturns) ==
    IF NoPair(portfolioReturns, benchmarkReturns) THEN Zero
    ELSE LET excessReturns ==
                 [i \in DOMAIN portfolioReturns |->
                    Sub(portfolioReturns[i], At(benchmarkReturns, i))]
         IN  Catch0(calculateVolatility(excessReturns))

\* Variant: the sum is divided by the length, not by the length - 1.
calculateCovariance_population(returns1, returns2) ==
    IF NoPair(returns1, returns2) THEN Zero
    ELSE LET mean1 == jStatMean(returns1)
             mean2 == jStatMean(returns2)
             sum == SumNum([i \in DOMAIN returns1 |->
                              Mul(Sub(returns1[i], mean1),
                                  Sub(At(returns2, i), mean2))])
         IN  Catch0(Div(sum, Rat(Len(returns1), 1)))

calculateCovariance(returns1, returns2) ==
    IF NoPair(returns1, returns2) THEN Zero
    ELSE LET mean1 == jStatMean(returns1)
             mean2 == jStatMean(returns2)
             sum == SumNum([i \in DOMAIN returns1 |->
                              Mul(Sub(returns1[i], mean1),
                                  Sub(At(returns2, i), mean2))])
         IN  Catch0(Div(sum, Rat(Len(returns1) - 1, 1)))

calculateCorrelation(returns1, returns2) ==
    IF NoPair(returns1, returns2) THEN Zero
    ELSE LET vol1 == calculateVolatility(returns1)
             vol2 == calculateVolatility(returns2)
         IN  IF IsZero(vol1) \/ IsZero(vol2) THEN Zero
             ELSE Catch0(Div(calculateCovariance(returns1, returns2),
                             Mul(vol1, vol2)))

calculateBeta(portfolioReturns, benchmarkReturns) ==
    IF NoPair(portfolioReturns, benchmarkReturns) THEN Zero
    ELSE LET cov == calculateCovariance(portfolioReturns, benchmarkReturns)
             benchmarkVar == jStatVariance(benchmarkReturns)
         IN  IF IsZero(benchmarkVar) THEN Zero
             ELSE Catch0(Div(cov, benchmarkVar))

calculateAlpha(portfolioReturns, benchmarkReturns, riskFreeRate) ==
    IF NoPair(portfolioReturns, benchmarkReturns) THEN Zero
    ELSE LET portfolioMean == jStatMean(portfolioReturns)
             benchmarkMean == jStatMean(benchmarkReturns)
             beta == calculateBeta(portfolioReturns, benchmarkReturns)
         IN  Catch0(Sub(portfolioMean,
                        Add(riskFreeRate,
                            Mul(beta, Sub(benchmarkMean, riskFreeRate)))))

calculateSharpeRatio(returns, riskFreeRate) ==
    IF NoSeries(returns) THEN Zero
    ELSE LET meanReturn == jStatMean(returns)
             volatility == calculateVolatility(returns)
         IN  IF IsZero(volatility) THEN Zero
             ELSE Catch0(Div(Sub(meanReturn, riskFreeRate), volatility))

calculateInformationRatio(portfolioReturns, benchmarkReturns) ==
    IF NoPair(portfolioReturns, benchmarkReturns) THEN Zero
    ELSE LET excessReturns ==
                 [i \in DOMAIN portfolioReturns |->
                    Sub(portfolioReturns[i], At(benchmarkReturns, i))]
             meanExcessReturn == jStatMean(excessReturns)
             trackingError == calculateTrackingError(portfolioReturns,
                                                     benchmarkReturns)
         IN  IF IsZero(trackingError) THEN Zero
             ELSE Catch0(Div(meanExcessReturn, trackingError))

\* calculateRiskContributions: while (parent) { ... }, the walk up the parent references of
\* this copy of the loop; it stops at a node without parent and breaks at an
\* id that does not resolve.
RECURSIVE contributionClimb(_, _, _)
contributionClimb(tree, weight, parent) ==
    IF parent = NoParent THEN weight
    ELSE LET parentNode == findNodeById(tree, tree.root, parent)
         IN  IF parentNode # Null
             THEN contributionClimb(tree, TimesFactor(weight, tree.nodes[parentNode].allocation),
                     tree.nodes[parentNode].parent)
             ELSE weight

\* let weight = asset.allocation / 100, then the walk
contributionWeight(tree, key) ==
    contributionClimb(tree, FirstFactor(tree.nodes[key].allocation), tree.nodes[key].parent)

\* assets.forEach for period i (1-based), from asset j on; the weight of an
\* asset, which the loop recomputes in every period, is computed once.
RECURSIVE contributionForEach(_, _, _, _, _, _)
contributionForEach(tree, assets, weights, i, j, acc) ==
    IF j > Len(assets) THEN acc
    ELSE LET asset == tree.nodes[assets[j]]
         IN  contributionForEach(tree, assets, weights, i, j + 1,
                IF i <= Len(asset.returns)
                THEN [weightedReturn |-> acc.weightedReturn + weights[j] * asset.returns[i],
                      totalWeight    |-> acc.totalWeight + weights[j]]
                ELSE acc)

\* for (let i = 0; i < assets[0].returns.length; i++) { ... } of calculateRiskContributions
contributionReturnsLoop(tree, assets) ==
    LET weights == [j \in DOMAIN assets |-> contributionWeight(tree, assets[j])] \o <<>>
    IN  [i \in 1..Len(tree.nodes[assets[1]].returns) |->
           LET sums == contributionForEach(tree, assets, weights, i, 1,
                                   [weightedReturn |-> 0, totalWeight |-> 0])
           IN  IF sums.totalWeight > 0
               THEN Fraction(sums.weightedReturn, sums.totalWeight)
               ELSE Fraction(0, 1)]

\* A return of the tree (an integer number of 1e-4) as a number; the numbers
\* computed from returns are in the units that follow from it (a volatility
\* and a contribution in 1e-4, a covariance in 1e-8).
ReturnNumber(r) == Rat(r, 1)

ReturnNumbers(returns) == [i \in DOMAIN returns |-> ReturnNumber(returns[i])] \o <<>>

\* A portfolio return weightedReturn / totalWeight as a number.
FractionNumber(f) == Rat(f.num, f.den)

\* A weight (a numerator over WeightOne) as a number.
WeightNumber(w) == Rat(w, WeightOne)

\* items.reduce((sum, item) => sum + item.contribution, 0)
RECURSIVE reduceContribution(_, _, _)
reduceContribution(items, i, sum) ==
    IF i > Len(items) THEN sum
    ELSE reduceContribution(items, i + 1, Add(sum, items[i].contribution))

\* The portfolio returns of a loop as numbers.
FractionNumbers(loop) == [i \in DOMAIN loop |-> FractionNumber(loop[i])] \o <<>>

\* const riskContributions = assets.map(asset => { ... })
riskContributionsOf(tree, assets, portfolioReturns, portfolioVol) ==
    [j \in DOMAIN assets |->
       [id |-> tree.nodes[assets[j]].id,
        contribution |->
           Div(Mul(WeightNumber(contributionWeight(tree, assets[j])),
                   calculateCovariance(ReturnNumbers(tree.nodes[assets[j]].returns),
                                       portfolioReturns)),
               portfolioVol),
        contributionPercentage |-> Zero]] \o <<>>

\* if (totalContribution > 0) { riskContributions.forEach(item => { ... }) }
contributionPercentages(riskContributions, totalContribution) ==
    IF Gt(totalContribution, Zero)
    THEN [j \in DOMAIN riskContributions |->
            [riskContributions[j] EXCEPT
               !.contributionPercentage =
                  Mul(Div(riskContributions[j].contribution, totalContribution),
                      Rat(100, 1))]] \o <<>>
    ELSE riskContributions

\* calculateRiskContributions from the total contribution on
contributionsWithTotal(riskContributions) ==
    contributionPercentages(riskContributions,
                            reduceContribution(riskContributions, 1, Zero))

\* calculateRiskContributions from "if (portfolioVol === 0) return []" on
contributionsOfVolatility(tree, assets, portfolioReturns, portfolioVol) ==
    IF IsZero(portfolioVol) THEN <<>>
    ELSE contributionsWithTotal(
            riskContributionsOf(tree, assets, portfolioReturns, portfolioVol))

\* calculateRiskContributions from the portfolio returns on
contributionsOfReturns(tree, assets, portfolioReturns) ==
    contributionsOfVolatility(tree, assets, portfolioReturns,
                              calculateVolatility(portfolioReturns))

\* calculateRiskContributions from the list of assets on
contributionsOfAssets(tree, assets) ==
    IF Len(assets) = 0 THEN <<>>
    ELSE IF Len(tree.nodes[assets[1]].returns) = 0 THEN <<>>
    ELSE contributionsOfReturns(tree, assets,
            FractionNumbers(contributionReturnsLoop(tree, assets)))

\* calculateRiskContributions: the empty list when portfolioData is null
\* (the property access raises, the catch returns []), when there is no
\* leaf, when the first leaf has no returns and when the portfolio
\* volatility is 0.
calculateRiskContributions(data) ==
    IF data = NullValue THEN <<>>
    ELSE contributionsOfAssets(data.wholePortfolio,
                               extractAssets(data.wholePortfolio))

\* calculateRiskMetrics in the worker: while (parent) { ... }, the walk up the parent references of
\* this copy of the loop; it stops at a node without parent and breaks at an
\* id that does not resolve.
RECURSIVE workerClimb(_, _, _)
workerClimb(tree, weight, parent) ==
    IF parent = NoParent THEN weight
    ELSE LET parentNode == findNodeById(tree, tree.root, parent)
         IN  IF parentNode # Null
             THEN workerClimb(tree, TimesFactor(weight, tree.nodes[parentNode].allocation),
                     tree.nodes[parentNode].parent)
             ELSE weight

\* let weight = asset.allocation / 100, then the walk
workerWeight(tree, key) ==
    workerClimb(tree, FirstFactor(tree.nodes[key].allocation), tree.nodes[key].parent)

\* assets.forEach for period i (1-based), from asset j on; the weight of an
\* asset, which the loop recomputes in every period, is computed once.
RECURSIVE workerForEach(_, _, _, _, _, _)
workerForEach(tree, assets, weights, i, j, acc) ==
    IF j > Len(assets) THEN acc
    ELSE LET asset == tree.nodes[assets[j]]
         IN  workerForEach(tree, assets, weights, i, j + 1,
                IF i <= Len(asset.returns)
                THEN [weightedReturn |-> acc.weightedReturn + weights[j] * asset.returns[i],
                      totalWeight    |-> acc.totalWeight + weights[j]]
                ELSE acc)

\* Variant: the weighted sum of a period is not divided by the total weight.
workerReturnsLoop_undivided(tree, assets) ==
    LET weights == [j \in DOMAIN assets |-> workerWeight(tree, assets[j])] \o <<>>
    IN  [i \in 1..Len(tree.nodes[assets[1]].returns) |->
           LET sums == workerForEach(tree, assets, weights, i, 1,
                                     [weightedReturn |-> 0, totalWeight |-> 0])
           IN  Fraction(sums.weightedReturn, WeightOne)]

\* for (let i = 0; i < assets[0].returns.length; i++) { ... } of calculateRiskMetrics
workerReturnsLoop(tree, assets) ==
    LET weights == [j \in DOMAIN assets |-> workerWeight(tree, assets[j])] \o <<>>
    IN  [i \in 1..Len(tree.nodes[assets[1]].returns) |->
           LET sums == workerForEach(tree, assets, weights, i, 1,
                                   [weightedReturn |-> 0, totalWeight |-> 0])
           IN  IF sums.totalWeight > 0
               THEN Fraction(sums.weightedReturn, sums.totalWeight)
               ELSE Fraction(0, 1)]

\* return { assetId, weight, ..., contributionPercentage: 0, portfolioVolatility }
\* of assets.map in calculateRiskMetrics
calculationStep(asset, weight, individualVolatility, marginalContribution, portfolioVolatility) ==
    [assetId |-> asset.id,
     weight |-> weight,
     individualVolatility |-> individualVolatility,
     marginalContribution |-> marginalContribution,
     contribution |-> Mul(weight, marginalContribution),
     contributionPercentage |-> Zero,
     portfolioVolatility |-> portfolioVolatility]

\* const calculationSteps = assets.map(asset => { ... })
calculationStepsOf(tree, assets, portfolioReturns, portfolioVolatility) ==
    [j \in DOMAIN assets |->
       calculationStep(tree.nodes[assets[j]],
          WeightNumber(workerWeight(tree, assets[j])),
          calculateVolatility(ReturnNumbers(tree.nodes[assets[j]].returns)),
          Div(calculateCovariance(ReturnNumbers(tree.nodes[assets[j]].returns),
                                  portfolioReturns),
              portfolioVolatility),
          portfolioVolatility)] \o <<>>

\* if (totalContribution > 0) { calculationSteps.forEach(step => { ... }) }
stepPercentages(calculationSteps, totalContribution) ==
    IF Gt(totalContribution, Zero)
    THEN [j \in DOMAIN calculationSteps |->
            [calculationSteps[j] EXCEPT
               !.contributionPercentage =
                  Mul(Div(calculationSteps[j].contribution, totalContribution),
                      Rat(100, 1))]] \o <<>>
    ELSE calculationSteps

\* return { portfolioVolatility, ..., riskContributions, calculationSteps }
decompositionResults(data, portfolioVolatility, calculationSteps) ==
    [portfolioVolatility |-> portfolioVolatility,
     riskContributions |-> calculateRiskContributions(data),
     calculationSteps |->
        stepPercentages(calculationSteps,
                        reduceContribution(calculationSteps, 1, Zero))]

\* calculateRiskMetrics from the calculation steps on
decompositionOfVolatility(data, assets, portfolioReturns, portfolioVolatility) ==
    decompositionResults(data, portfolioVolatility,
        calculationStepsOf(data.wholePortfolio, assets, portfolioReturns,
                           portfolioVolatility))

\* calculateRiskMetrics from the portfolio volatility on
decompositionOfReturns(data, assets, portfolioReturns) ==
    decompositionOfVolatility(data, assets, portfolioReturns,
                              calculateVolatility(portfolioReturns))

\* The end of calculateRiskMetrics in the worker, reached when it did not
\* throw: the portfolio volatility, the risk contributions and the
\* calculation steps of its result.
riskDecomposition(data) ==
    decompositionOfReturns(data, extractAssets(data.wholePortfolio),
        FractionNumbers(workerReturnsLoop(data.wholePortfolio,
                                          extractAssets(data.wholePortfolio))))

\* RiskAnalysisView, the effect that hands the steps to the parent: nothing
\* (NullValue) when there is no risk contribution, otherwise one step per
\* risk contribution.  A risk contribution has no weight, individualVolatility
\* or marginalContribution field, and "undefined || 0" is 0.
handedSteps(workerResults) ==
    IF Len(workerResults.riskContributions) = 0 THEN NullValue
    ELSE [isNull |-> FALSE,
          steps |->
            [j \in DOMAIN workerResults.riskContributions |->
               LET contribution == workerResults.riskContributions[j]
               IN  [assetId |-> contribution.id,
                    weight |-> Zero,
                    individualVolatility |-> Zero,
                    marginalContribution |-> Zero,
                    contribution |-> contribution.contribution,
                    contributionPercentage |-> contribution.contributionPercentage,
                    portfolioVolatility |-> workerResults.portfolioVolatility]] \o <<>>]

\* calculateRiskMetrics in the worker: throws when there is no return data,
\* otherwise the results carry the portfolio return series.
calculateRiskMetrics(data) ==
    LET tree   == data.wholePortfolio
        assets == extractAssets(tree)
    IN  IF noReturnData(tree, assets)
        THEN [threw |-> TRUE, message |-> "No asset returns data available",
              portfolioReturns |-> <<>>]
        ELSE [threw |-> FALSE, message |-> "",
              portfolioReturns |-> workerReturnsLoop(tree, assets)]

-----------------------------------------------------------------------------
(* The risk worker (riskWorker.ts) and the useRiskWorker hook *)

\* Variant: no catch around the computation, nothing is posted when it throws.
workerOnMessage_noCatch(msg) ==
    IF msg.type = "calculate_risk"
    THEN LET r == calculateRiskMetrics(msg.data.portfolioData)
         IN  IF ~r.threw
             THEN << [type |-> "risk_calculation_results", data |-> r,
                      error |-> Null, req |-> msg.req] >>
             ELSE <<>>
    ELSE <<>>

\* The worker's message listener: the messages it posts for one message
\* received.  req is not in the code: it names the request a response
\* answers, so that properties can tell responses apart.
workerOnMessage(msg) ==
    IF msg.type = "calculate_risk"
    THEN LET r == calculateRiskMetrics(msg.data.portfolioData)
         IN  IF ~r.threw
             THEN << [type |-> "risk_calculation_results", data |-> r,
                      error |-> Null, req |-> msg.req] >>
             ELSE << [type |-> "error", data |-> NullValue,
                      error |-> "Error in risk calculation", req |-> msg.req] >>
    ELSE <<>>

\* riskWorker.onmessage in the hook: the new [results, loading, error]
hookOnMessage(msg) ==
    IF msg.type = "risk_calculation_results"
    THEN [results |-> [isNull |-> FALSE, req |-> msg.req, data |-> msg.data],
          loading |-> FALSE, error |-> error]
    ELSE IF msg.type = "error"
    THEN [results |-> results, loading |-> FALSE,
          error |-> [isNull |-> FALSE, req |-> msg.req, text |-> msg.error]]
    ELSE [results |-> results, loading |-> loading, error |-> error]

\* What is remembered of a filter call: the argument as it was before the
\* call, the object returned, and the inputs.
FilterRecord(data, call, timePeriod, date, throws) ==
    [isNull |-> FALSE, before |-> data, ret |-> call.ret,
     timePeriod |-> timePeriod, date |-> date, threw |-> throws]

\* calculateRisk of the hook, run by the effect of RiskAnalysisView for the
\* snapshot `held` and the period `timePeriod`.  The snapshot the App holds
\* afterwards is the object that was passed to the filter.
calculateRisk(held, timePeriod) ==
    LET call == filterPortfolioDataByTimePeriod(held, timePeriod, Today, FALSE)
    IN  /\ loading' = TRUE
        /\ error' = NullValue
        /\ portfolioData' = call.arg
        /\ inbox' = Append(inbox,
              [type |-> "calculate_risk",
               data |-> [portfolioData |-> call.ret, benchmark |-> "Market"],
               req |-> issued + 1])
        /\ issued' = issued + 1
        /\ lastFilter' = FilterRecord(held, call, timePeriod, Today, FALSE)
        /\ UNCHANGED <<now, results, outbox, posted, calc>>
        /\ UNCHANGED partVars

\* ExtendedPortfolioData: the App writes the generation parameters on the
\* snapshot it has generated.
WithParams(data, months, scenario, volatilityLevel) ==
    [data EXCEPT !.scenario = scenario, !.volatilityLevel = volatilityLevel,
                 !.months = months]

\* What is remembered of a generatePortfolioData call: its inputs.
GenRecord(months, scenario, volatilityLevel, a, seed, throwAt, date) ==
    [isNull |-> FALSE, months |-> months, scenario |-> scenario,
     volatilityLevel |-> volatilityLevel, allocations |-> a, seed |-> seed,
     throwAt |-> throwAt, date |-> date]

\* Inputs of the App's handlers
AppGenInputs == { <<"normal", "medium">>, <<"bullish", "low">>, <<"bearish", "high">> }
AppThrowStages == {"none", "tree"}

\* lastGenerated of DataGeneratorControls (the timestamp is left out)
GeneratedParameters(scenario, volatility) == [isNull |-> FALSE, scenario |-> scenario, volatility |-> volatility]

AllocationChoices ==
    { defaultAllocations,
      [publicVsPrivate |-> 100, equitiesVsFixedIncome |-> 0, audVsFx |-> 30,
       sovereignVsNonSovereign |-> 100,
       privateAllocation |-> [realEstate |-> 0, infrastructure |-> 10,
                              privateEquity |-> 90]],
      [publicVsPrivate |-> 0, equitiesVsFixedIncome |-> 50, audVsFx |-> 100,
       sovereignVsNonSovereign |-> 0,
       privateAllocation |-> [realEstate |-> 100, infrastructure |-> 0,
                              privateEquity |-> 0]] }

\* The random stream of the k-th generation of a session.
SessionSeed(k) == (k % NumSeeds) + 1

\* The components modelled on their own are not mounted.
PartsIdle ==
    /\ cache = NullValue
    /\ slider = NullValue
    /\ page = NullValue
    /\ walk = NullValue

\* useState initialisers of App, and the hook before its worker exists.
AppInit ==
    /\ PartsIdle
    /\ now \in {1, 2}
    /\ allocations = defaultAllocations
    /\ selectedTimePeriod = "10Y"
    /\ results = NullValue
    /\ loading = FALSE
    /\ error = NullValue
    /\ inbox = <<>>
    /\ outbox = <<>>
    /\ posted = <<>>
    /\ issued = 0
    /\ lastGenerated = GeneratedParameters("normal", "medium")
    /\ lastFilter = NullValue
    /\ calc = NullValue
    /\ \E throwAt \in AppThrowStages :
         LET data == generatePortfolioData(120, "normal", "medium",
                        defaultAllocations, SessionSeed(0), throwAt, Today)
         IN  /\ portfolioData = WithParams(data, 120, "normal", "medium")
             /\ lastGen = GenRecord(120, "normal", "medium", defaultAllocations,
                                    SessionSeed(0), throwAt, Today)

\* The worker has been created and the effect of RiskAnalysisView runs
\* calculateRisk for the initial snapshot.
Mount ==
    /\ issued = 0
    /\ calculateRisk(portfolioData, selectedTimePeriod)
    /\ UNCHANGED <<allocations, selectedTimePeriod, lastGen, lastGenerated>>

\* handleGenerateData of App (called by handleGenerateData of
\* DataGeneratorControls, which then sets lastGenerated), then the effect;
\* without the cap on the requests of a behaviour.
generateData ==
    /\ \E in \in AppGenInputs, throwAt \in AppThrowStages :
         LET actualMonths == 120
             data == generatePortfolioData(actualMonths, in[1], in[2],
                        allocations, SessionSeed(issued), throwAt, Today)
         IN  /\ lastGen' = GenRecord(actualMonths, in[1], in[2], allocations,
                                     SessionSeed(issued), throwAt, Today)
             /\ calculateRisk(WithParams(data, actualMonths, in[1], in[2]),
                              selectedTimePeriod)
             /\ lastGenerated' = GeneratedParameters(in[1], in[2])
    /\ UNCHANGED <<allocations, selectedTimePeriod>>

handleGenerateData ==
    /\ issued > 0 /\ issued < MaxRequests
    /\ generateData

\* handleUpdateAllocations of App, then the effect, without the cap on the
\* requests of a behaviour.
updateAllocations ==
    /\ \E newAllocations \in AllocationChoices, throwAt \in AppThrowStages :
         LET data == generatePortfolioData(120, "normal", "medium",
                        newAllocations, SessionSeed(issued), throwAt, Today)
         IN  /\ allocations' = newAllocations
             /\ lastGen' = GenRecord(120, "normal", "medium", newAllocations,
                                     SessionSeed(issued), throwAt, Today)
             /\ calculateRisk(WithParams(data, 120, "normal", "medium"),
                              selectedTimePeriod)
    /\ UNCHANGED <<selectedTimePeriod, lastGenerated>>

handleUpdateAllocations ==
    /\ issued > 0 /\ issued < MaxRequests
    /\ updateAllocations

\* handleTimePeriodChange of App, then the effect (which runs only when the
\* selected period has changed).
handleTimePeriodChange ==
    /\ issued > 0 /\ issued < MaxRequests
    /\ \E p \in TimePeriods \ {selectedTimePeriod} :
         /\ selectedTimePeriod' = p
         /\ calculateRisk(portfolioData, p)
    /\ UNCHANGED <<allocations, lastGen, lastGenerated>>

\* The worker takes the next request and runs its listener to the end.
WorkerHandle ==
    /\ inbox # <<>>
    /\ LET out == workerOnMessage(Head(inbox))
       IN  /\ outbox' = outbox \o out
           /\ posted' = posted \o [k \in DOMAIN out |->
                                     [type |-> out[k].type, req |-> out[k].req]]
    /\ inbox' = Tail(inbox)
    /\ UNCHANGED <<now, portfolioData, allocations, selectedTimePeriod, results,
                   loading, error, issued, lastGenerated, lastFilter, lastGen,
                   calc>>
    /\ UNCHANGED partVars

\* The hook receives the next message from the worker.
OnMessage ==
    /\ outbox # <<>>
    /\ LET h == hookOnMessage(Head(outbox))
       IN  /\ results' = h.results
           /\ loading' = h.loading
           /\ error' = h.error
    /\ outbox' = Tail(outbox)
    /\ UNCHANGED <<now, portfolioData, allocations, selectedTimePeriod, inbox,
                   posted, issued, lastGenerated, lastFilter, lastGen, calc>>
    /\ UNCHANGED partVars

Init == AppInit

Next ==
    \/ Mount
    \/ handleGenerateData
    \/ handleUpdateAllocations
    \/ handleTimePeriodChange
    \/ WorkerHandle
    \/ OnMessage

Spec == Init /\ [][Next]_vars

-----------------------------------------------------------------------------
(* The generator and the filter as functions: generatePortfolioData is      *)
(* called with inputs from bounded sets, the filter is applied to the       *)
(* snapshot it returned, at the call date or later.                         *)

GenMonths == {0, 2, 14, 120}

\* A settings value whose private allocations do not sum to 100.
unbalancedAllocations ==
    [publicVsPrivate |-> 70, equitiesVsFixedIncome |-> 60, audVsFx |-> 60,
     sovereignVsNonSovereign |-> 60,
     privateAllocation |-> [realEstate |-> 40, infrastructure |-> 30,
                            privateEquity |-> 20]]

\* scenario, volatility level, allocations and seed of a call
GenMix ==
    { [scenario |-> sc, volatilityLevel |-> v,
       allocations |-> defaultAllocations, seed |-> 1] :
         sc \in Scenarios, v \in VolatilityLevels }
    \cup
    { [scenario |-> "normal", volatilityLevel |-> "medium",
       allocations |-> a, seed |-> sd] :
         a \in AllocationChoices \cup {unbalancedAllocations}, sd \in 1..NumSeeds }

AppIdle ==
    /\ allocations = defaultAllocations
    /\ selectedTimePeriod = "10Y"
    /\ results = NullValue
    /\ loading = FALSE
    /\ error = NullValue
    /\ inbox = <<>>
    /\ outbox = <<>>
    /\ posted = <<>>
    /\ issued = 0
    /\ lastGenerated = NullValue

\* No snapshot has been generated yet.
GenInit ==
    /\ AppIdle
    /\ PartsIdle
    /\ now \in DOMAIN Clock
    /\ portfolioData = NullValue
    /\ lastGen = NullValue
    /\ lastFilter = NullValue
    /\ calc = NullValue

\* One call of generatePortfolioData.
GenCall ==
    /\ lastGen.isNull
    /\ \E months \in GenMonths, mix \in GenMix, throwAt \in ThrowStages :
         /\ portfolioData' = generatePortfolioData(months, mix.scenario,
                                mix.volatilityLevel, mix.allocations, mix.seed,
                                throwAt, Today)
         /\ lastGen' = GenRecord(months, mix.scenario, mix.volatilityLevel,
                                 mix.allocations, mix.seed, throwAt, Today)
    /\ UNCHANGED <<now, lastFilter, calc>>
    /\ UNCHANGED appVars

\* A call of filterPortfolioDataByTimePeriod on the snapshot held.
FilterCall ==
    /\ \E timePeriod \in TimePeriods, throws \in BOOLEAN :
         LET call == filterPortfolioDataByTimePeriod(portfolioData, timePeriod,
                                                     Today, throws)
         IN  /\ portfolioData' = call.arg
             /\ lastFilter' = FilterRecord(portfolioData, call, timePeriod,
                                           Today, throws)
    /\ UNCHANGED <<now, lastGen, calc>>
    /\ UNCHANGED appVars

\* Time passes.
GenTick ==
    /\ ~lastGen.isNull
    /\ now < Len(Clock)
    /\ now' = now + 1
    /\ UNCHANGED <<portfolioData, lastFilter, lastGen, calc>>
    /\ UNCHANGED appVars

\* One call on the generated snapshot.
GenFilter ==
    /\ ~lastGen.isNull
    /\ lastFilter.isNull
    /\ FilterCall

GenNext == GenCall \/ GenFilter \/ GenTick

SpecGen == GenInit /\ [][GenNext]_vars

\* Sequences of filter calls by a caller that keeps the snapshot it was
\* given by generatePortfolioData: the regular snapshots and the minimal one.
FilterInit ==
    /\ AppIdle
    /\ PartsIdle
    /\ now \in DOMAIN Clock
    /\ lastFilter = NullValue
    /\ calc = NullValue
    /\ \E months \in GenMonths, seed \in 1..NumSeeds, throwAt \in {"none", "tree"} :
         /\ portfolioData = generatePortfolioData(months, "normal", "medium",
                               defaultAllocations, seed, throwAt, Today)
         /\ lastGen = GenRecord(months, "normal", "medium", defaultAllocations,
                                seed, throwAt, Today)

FilterNext == FilterCall \/ GenTick

SpecFilter == FilterInit /\ [][FilterNext]_vars

-----------------------------------------------------------------------------
(* The return computations as functions of a given tree *)

\* Hand-built trees: the nodes in pre-order, each with the key of the node
\* above it.
GivenShapes ==
    { << [id |-> "r", class |-> TRUE, up |-> NoParent] >>,
      << [id |-> "r", class |-> TRUE, up |-> NoParent],
         [id |-> "a1", class |-> FALSE, up |-> "r"],
         [id |-> "a2", class |-> FALSE, up |-> "r"],
         [id |-> "a3", class |-> FALSE, up |-> "r"] >>,
      << [id |-> "r", class |-> TRUE, up |-> NoParent],
         [id |-> "c1", class |-> TRUE, up |-> "r"],
         [id |-> "a1", class |-> FALSE, up |-> "c1"],
         [id |-> "a2", class |-> FALSE, up |-> "c1"],
         [id |-> "a3", class |-> FALSE, up |-> "r"] >>,
      << [id |-> "r", class |-> TRUE, up |-> NoParent],
         [id |-> "c1", class |-> TRUE, up |-> "r"],
         [id |-> "c2", class |-> TRUE, up |-> "c1"],
         [id |-> "a1", class |-> FALSE, up |-> "c2"],
         [id |-> "a2", class |-> FALSE, up |-> "c1"] >>,
      << [id |-> "r", class |-> TRUE, up |-> NoParent],
         [id |-> "c1", class |-> TRUE, up |-> "r"],
         [id |-> "a1", class |-> FALSE, up |-> "r"],
         [id |-> "a2", class |-> FALSE, up |-> "r"] >> }

GivenAllocations == {0, 30, 70, 100}

\* The values of a hand-built return series of length n for the asset at
\* position j of the shape.
GivenReturns(j, n) == [m \in 1..n |-> NormalSample(10 * j, 7, 1, j, m)]

\* The parent field of the nodes directly below the root: the id of the
\* root, no field at all (as the generator writes them), or an id that no
\* node of the tree carries.
GivenTopParents == {"r", NoParent, "gone"}

\* The tree of a shape: alloc and len give every node its allocation and
\* the length of its return series; topParent is the parent field of the
\* nodes directly below the root.
GivenTree(shape, alloc, len, topParent) ==
    MakeTree("r",
      [j \in DOMAIN shape |->
         LET d == shape[j]
             parent == IF d.up = "r" THEN topParent ELSE d.up
         IN  IF d.class
             THEN AssetClassNode(d.id, alloc[j], parent,
                     SelectSeq([k \in DOMAIN shape |-> shape[k].id],
                               LAMBDA c : \E k \in DOMAIN shape :
                                             shape[k].id = c /\ shape[k].up = d.id))
             ELSE AssetNode(d.id, alloc[j], parent, GivenReturns(j, len[j]))])

GivenSnapshot(shape, alloc, len, topParent) ==
    Snapshot("given", GivenTree(shape, alloc, len, topParent),
             Clock[1], Clock[1], [b \in BenchmarkNames |-> [returns |-> <<>>]])

\* The worked example: one class with three leaves of weights 0.5, 0.3 and
\* 0.2 and the returns [0.01, 0.02], [0.00, 0.01], [-0.01, 0.03], in 1e-4.
ExampleTree ==
    MakeTree("r",
      << AssetClassNode("r", 100, NoParent, <<"a1", "a2", "a3">>),
         AssetNode("a1", 50, "r", <<100, 200>>),
         AssetNode("a2", 30, "r", <<0, 100>>),
         AssetNode("a3", 20, "r", <<-100, 300>>) >>)

ExampleSnapshot ==
    Snapshot("example", ExampleTree, Clock[1], Clock[1],
             [b \in BenchmarkNames |-> [returns |-> <<>>]])

TreeInit ==
    /\ AppIdle
    /\ PartsIdle
    /\ now = 1
    /\ lastFilter = NullValue
    /\ lastGen = NullValue
    /\ calc = NullValue
    /\ \/ \E shape \in GivenShapes, topParent \in GivenTopParents :
            \E alloc \in [DOMAIN shape -> GivenAllocations],
               len \in [{j \in DOMAIN shape : ~shape[j].class} -> 0..MaxGiven] :
              /\ alloc[1] = 100
              /\ portfolioData = GivenSnapshot(shape, alloc, len, topParent)
       \/ \E a \in AllocationChoices, sd \in 1..NumSeeds :
            portfolioData = generatePortfolioData(2, "normal", "medium", a, sd,
                                                  "none", Today)
       \/ portfolioData = ExampleSnapshot

\* What is remembered of a computation: the function, whether it threw, the
\* series it returned and the weights its loop used (none when it did not
\* get to the loop).
CalcRecord(fn, threw, out, data) ==
    LET tree   == data.wholePortfolio
        assets == extractAssets(tree)
    IN  [isNull |-> FALSE, fn |-> fn, threw |-> threw, out |-> out,
         weights |-> IF noReturnData(tree, assets) THEN <<>>
                     ELSE assetWeights(tree, assets)]

\* calculatePortfolioReturns(portfolioData)
ApplyPortfolioReturns ==
    /\ calc' = CalcRecord("calculatePortfolioReturns", FALSE,
                          calculatePortfolioReturns(portfolioData), portfolioData)
    /\ UNCHANGED <<now, portfolioData, lastFilter, lastGen>>
    /\ UNCHANGED appVars

\* calculateRiskMetrics(portfolioData) of the worker
ApplyRiskMetrics ==
    /\ LET r == calculateRiskMetrics(portfolioData)
       IN  calc' = CalcRecord("calculateRiskMetrics", r.threw, r.portfolioReturns,
                              portfolioData)
    /\ UNCHANGED <<now, portfolioData, lastFilter, lastGen>>
    /\ UNCHANGED appVars

TreeNext == ApplyPortfolioReturns \/ ApplyRiskMetrics

SpecTree == TreeInit /\ [][TreeNext]_vars

-----------------------------------------------------------------------------
(* The metric functions as functions of given series *)

\* The entries of the short series: losses of 150%, 100% and 50%, no change,
\* a gain of 50%.
SeriesValues == {Rat(-3, 2), Rat(-1, 1), Rat(-1, 2), Rat(0, 1), Rat(1, 2)}

\* The entries of the series given in pairs.
PairValues == {Rat(-1, 10), Rat(0, 1), Rat(1, 5)}

SeriesOver(values, maxLen) ==
    UNION { [1..n -> values] : n \in 0..maxLen }

\* The lengths of the long series, for which the 95% and the 99% index of
\* calculateValueAtRisk differ.
LongLengths == {20, 40, 100}

LongSeries(seed, n) ==
    [m \in 1..n |-> Rat(((m * m * (seed + 2) + 7 * m) % 41) - 20, 100)]

SingleInputs == SeriesOver(SeriesValues, MaxSeries) \cup {NullSeries}

LongInputs == { LongSeries(seed, n) : seed \in 1..NumSeeds, n \in LongLengths }

PairInputs == SeriesOver(PairValues, MaxSeries) \cup {NullSeries}

\* The returns of the trees given to the risk decomposition: for the asset at
\* position j of the shape, n returns of a few 1e-4 around j.
RiskReturns(j, n) == [m \in 1..n |-> j + StandardNormal(1, j, m)]

\* The allocations of the trees given to the risk decomposition.
RiskAllocations == {0, 50, 100}

\* The snapshot of a hand-built tree with these returns.
RiskSnapshot(shape, alloc, len, topParent) ==
    LET given == GivenSnapshot(shape, alloc, len, topParent)
        position(k) == CHOOSE j \in DOMAIN shape : shape[j].id = k
    IN  [given EXCEPT !.wholePortfolio.nodes =
           [k \in DOMAIN @ |->
              IF @[k].hasReturns
              THEN [@[k] EXCEPT !.returns = RiskReturns(position(k), len[position(k)])]
              ELSE @[k]]]

\* riskFreeRate: the default 0.0 and the worker's 0.001
RiskFreeRates == {Rat(0, 1), Rat(1, 1000)}

\* confidenceLevel, in percent
ConfidenceLevels == {95, 99}

\* What is remembered of a call: the function, its arguments, its result.
MetricRecord(fn, returns1, returns2, param, out) ==
    [isNull |-> FALSE, fn |-> fn, returns1 |-> returns1, returns2 |-> returns2,
     param |-> param, out |-> out]

\* Nothing computed yet; there is no snapshot, or the snapshot of a tree.
\* The functions of series are called while there is no snapshot.
MetricInit ==
    /\ AppIdle
    /\ PartsIdle
    /\ now = 1
    /\ lastGen = NullValue
    /\ lastFilter = NullValue
    /\ calc = NullValue
    /\ \/ portfolioData = NullValue
       \/ \E shape \in GivenShapes, topParent \in GivenTopParents :
            \E alloc \in [DOMAIN shape -> RiskAllocations],
               len \in [{j \in DOMAIN shape : ~shape[j].class} -> 0..MaxGiven] :
              /\ alloc[1] = 100
              /\ portfolioData = RiskSnapshot(shape, alloc, len, topParent)

\* A call of a function of one series.
ApplySingle ==
    /\ calc.isNull
    /\ portfolioData = NullValue
    /\ \E returns \in SingleInputs :
         \/ calc' = MetricRecord("calculateVolatility", returns, <<>>, Zero,
                                 calculateVolatility(returns))
         \/ calc' = MetricRecord("calculateMaxDrawdown", returns, <<>>, Zero,
                                 calculateMaxDrawdown(returns))
         \/ \E riskFreeRate \in RiskFreeRates :
              calc' = MetricRecord("calculateSharpeRatio", returns, <<>>,
                                   riskFreeRate,
                                   calculateSharpeRatio(returns, riskFreeRate))
    /\ UNCHANGED <<now, portfolioData, lastFilter, lastGen>>
    /\ UNCHANGED appVars

\* A call of calculateValueAtRisk, on a short or a long series.
ApplyValueAtRisk ==
    /\ calc.isNull
    /\ portfolioData = NullValue
    /\ \E returns \in SingleInputs \cup LongInputs, confidenceLevel \in ConfidenceLevels :
         calc' = MetricRecord("calculateValueAtRisk", returns, <<>>,
                              Rat(confidenceLevel, 1),
                              calculateValueAtRisk(returns, confidenceLevel))
    /\ UNCHANGED <<now, portfolioData, lastFilter, lastGen>>
    /\ UNCHANGED appVars

\* A call of a function of two series.
ApplyPair ==
    /\ calc.isNull
    /\ portfolioData = NullValue
    /\ \E returns1 \in PairInputs, returns2 \in PairInputs :
         \/ calc' = MetricRecord("calculateTrackingError", returns1, returns2, Zero,
                                 calculateTrackingError(returns1, returns2))
         \/ calc' = MetricRecord("calculateCovariance", returns1, returns2, Zero,
                                 calculateCovariance(returns1, returns2))
         \/ calc' = MetricRecord("calculateCorrelation", returns1, returns2, Zero,
                                 calculateCorrelation(returns1, returns2))
         \/ calc' = MetricRecord("calculateBeta", returns1, returns2, Zero,
                                 calculateBeta(returns1, returns2))
         \/ \E riskFreeRate \in RiskFreeRates :
              calc' = MetricRecord("calculateAlpha", returns1, returns2,
                                   riskFreeRate,
                                   calculateAlpha(returns1, returns2, riskFreeRate))
         \/ calc' = MetricRecord("calculateInformationRatio", returns1, returns2,
                                 Zero,
                                 calculateInformationRatio(returns1, returns2))
    /\ UNCHANGED <<now, portfolioData, lastFilter, lastGen>>
    /\ UNCHANGED appVars

\* What is remembered of a call of calculateRiskContributions.
ContributionsRecord(data) ==
    [isNull |-> FALSE, fn |-> "calculateRiskContributions",
     out |-> calculateRiskContributions(data)]

\* calculateRiskContributions(data), for null and for a snapshot
ApplyRiskContributions ==
    /\ calc.isNull
    /\ calc' = ContributionsRecord(portfolioData)
    /\ UNCHANGED <<now, portfolioData, lastFilter, lastGen>>
    /\ UNCHANGED appVars

\* The outcome of calculateRiskMetrics(data) in the worker: nothing
\* (NullValue) when it threw, otherwise the decomposition in its results.
workerOutcome(data) ==
    IF calculateRiskMetrics(data).threw THEN NullValue ELSE riskDecomposition(data)

\* What is remembered of a risk computation of the worker: whether it threw,
\* otherwise the decomposition in its results and the steps that
\* RiskAnalysisView hands to its parent.
DecompositionRecord(outcome) ==
    [isNull |-> FALSE, fn |-> "calculateRiskMetrics", threw |-> outcome = NullValue,
     results |-> IF outcome = NullValue THEN NullValue
                 ELSE [isNull |-> FALSE] @@ outcome,
     handed |-> IF outcome = NullValue THEN NullValue ELSE handedSteps(outcome)]

\* calculateRiskMetrics(data) of the worker for a snapshot
ApplyRiskDecomposition ==
    /\ calc.isNull
    /\ portfolioData # NullValue
    /\ \E outcome \in {workerOutcome(portfolioData)} :
         calc' = DecompositionRecord(outcome)
    /\ UNCHANGED <<now, portfolioData, lastFilter, lastGen>>
    /\ UNCHANGED appVars

MetricNext ==
    \/ ApplySingle
    \/ ApplyValueAtRisk
    \/ ApplyPair
    \/ ApplyRiskContributions
    \/ ApplyRiskDecomposition

SpecMetric == MetricInit /\ [][MetricNext]_vars

-----------------------------------------------------------------------------
(* Properties: weights and portfolio returns (SpecTree) *)

RECURSIVE SumOver(_, _)
SumOver(S, f) ==
    IF S = {} THEN 0
    ELSE LET x == CHOOSE y \in S : TRUE
         IN  f[x] + SumOver(S \ {x}, f)

RECURSIVE MaxOver(_, _)
MaxOver(S, f) ==
    IF S = {} THEN 0
    ELSE LET x == CHOOSE y \in S : TRUE
             rest == MaxOver(S \ {x}, f)
         IN  IF f[x] > rest THEN f[x] ELSE rest

HeldTree == portfolioData.wholePortfolio

\* The assets of a tree: the nodes without a children field.
AssetKeys(tree) == {k \in DOMAIN tree.nodes : ~tree.nodes[k].hasChildren}

ChildAllocationSum(tree, k) ==
    SumOver(SeqToSet(tree.nodes[k].children),
            [c \in SeqToSet(tree.nodes[k].children) |-> tree.nodes[c].allocation])

EveryClassSumsTo100(tree) ==
    \A k \in DOMAIN tree.nodes :
       tree.nodes[k].hasChildren => ChildAllocationSum(tree, k) = 100

WeightOf(tree) == [k \in AssetKeys(tree) |-> absoluteWeight(tree, k)]

\* C1: in a tree in which the allocations of the direct children of every
\* asset class sum to exactly 100, the absolute weights of the leaves, as the
\* parent walk computes them, sum to 1 (WeightOne); so do the weights a
\* computation has used.
C1_WeightsSumToOne ==
    EveryClassSumsTo100(HeldTree) =>
       /\ SumOver(AssetKeys(HeldTree), WeightOf(HeldTree)) = WeightOne
       /\ (~calc.isNull /\ calc.weights # <<>>) => SumSeq(calc.weights) = WeightOne

\* C1 witness: a computation has run on a tree whose classes all sum to 100,
\* with at least three leaves, one of them below a class that is not the
\* root and carrying a weight that is neither 0 nor its own allocation.
C1_Witness ==
    /\ ~calc.isNull
    /\ EveryClassSumsTo100(HeldTree)
    /\ Len(calc.weights) >= 3
    /\ SumSeq(calc.weights) = WeightOne
    /\ \E k \in AssetKeys(HeldTree) :
          /\ HeldTree.nodes[k].parent \notin {NoParent, HeldTree.root}
          /\ absoluteWeight(HeldTree, k) > 0
          /\ absoluteWeight(HeldTree, k) # FirstFactor(HeldTree.nodes[k].allocation)

\* The sums the claim C7 speaks of, for period i: over exactly the leaves
\* whose series has an entry at i.
LeavesAt(tree, i) == {k \in AssetKeys(tree) : i <= Len(tree.nodes[k].returns)}

ClaimedReturn(tree, i) ==
    Fraction(SumOver(LeavesAt(tree, i),
                     [k \in LeavesAt(tree, i) |->
                        absoluteWeight(tree, k) * tree.nodes[k].returns[i]]),
             SumOver(LeavesAt(tree, i), WeightOf(tree)))

LongestSeries(tree) ==
    MaxOver(AssetKeys(tree), [k \in AssetKeys(tree) |-> Len(tree.nodes[k].returns)])

\* C7: whenever the computation gets to its loop, it produces a period for
\* every index at which at least one leaf has an entry, and the return of
\* period i is the weighted sum over the leaves that have an entry at i
\* divided by the sum of their weights (where that sum is positive).
C7_Claim ==
    (~calc.isNull /\ calc.weights # <<>>) =>
       /\ Len(calc.out) = LongestSeries(HeldTree)
       /\ \A i \in 1..Len(calc.out) :
             ClaimedReturn(HeldTree, i).den > 0 =>
                calc.out[i] = ClaimedReturn(HeldTree, i)

SomeLeafHasData(tree) ==
    \E k \in AssetKeys(tree) : Len(tree.nodes[k].returns) > 0

\* The computation reports that there is no return data: the worker throws,
\* calculatePortfolioReturns returns the empty list.
ReportsNoReturnData ==
    IF calc.fn = "calculateRiskMetrics" THEN calc.threw ELSE calc.out = <<>>

\* C8: the portfolio-return computation fails with the no-return-data error
\* if and only if no leaf of the tree has a non-empty return series.
C8_Claim ==
    ~calc.isNull => (ReportsNoReturnData <=> ~SomeLeafHasData(HeldTree))

-----------------------------------------------------------------------------
(* Properties: the filter and the generator (SpecGen, SpecFilter) *)

Trailing(s, n) ==
    IF n >= Len(s) THEN s ELSE SubSeq(s, Len(s) - n + 1, Len(s))

FilterRan == ~lastFilter.isNull /\ ~lastFilter.threw

\* C2: after a call of the filter that did not take the error path, every
\* leaf's returns and every benchmark's returns of the snapshot returned are
\* exactly the trailing monthsToInclude entries of the series passed in (the
\* whole series when it is shorter), for every period, YTD included.
C2_Claim ==
    FilterRan =>
       LET m   == switchMonthsToInclude(lastFilter.timePeriod, lastFilter.date)
           old == lastFilter.before
           new == lastFilter.ret
       IN  /\ \A k \in AssetKeys(old.wholePortfolio) :
                new.wholePortfolio.nodes[k].returns
                   = Trailing(old.wholePortfolio.nodes[k].returns, m)
           /\ \A b \in BenchmarkNames :
                new.benchmarks[b].returns = Trailing(old.benchmarks[b].returns, m)

\* The snapshot generatePortfolioData returned for the recorded inputs.
AsGenerated ==
    generatePortfolioData(lastGen.months, lastGen.scenario, lastGen.volatilityLevel,
                          lastGen.allocations, lastGen.seed, lastGen.throwAt,
                          lastGen.date)

SeriesLengths(data) ==
    { Len(data.wholePortfolio.nodes[k].returns) : k \in AssetKeys(data.wholePortfolio) }
    \cup { Len(data.benchmarks[b].returns) : b \in DOMAIN data.benchmarks }

\* C6: in the snapshot generatePortfolioData returned and in the snapshot a
\* filter call returned from it, all leaf series and all benchmark series
\* have one and the same length.
C6_CommonLength ==
    /\ ~lastGen.isNull => Cardinality(SeriesLengths(portfolioData)) = 1
    /\ ~lastFilter.isNull => Cardinality(SeriesLengths(lastFilter.ret)) = 1

\* C6 witness: a 120-month snapshot with its sixteen leaves has been cut to
\* 12 months.
C6_Witness ==
    /\ FilterRan
    /\ Cardinality(AssetKeys(HeldTree)) = 16
    /\ SeriesLengths(portfolioData) = {120}
    /\ SeriesLengths(lastFilter.ret) = {12}

IsMinimal(data) ==
    /\ data.wholePortfolio.nodes[data.wholePortfolio.root].children = <<>>
    /\ DOMAIN data.wholePortfolio.nodes = {data.wholePortfolio.root}
    /\ \A b \in BenchmarkNames : data.benchmarks[b].returns = <<>>

ValidSettings(a) ==
    /\ \A x \in {a.publicVsPrivate, a.equitiesVsFixedIncome, a.audVsFx,
                 a.sovereignVsNonSovereign} : x >= 0 /\ x <= 100
    /\ a.privateAllocation.realEstate + a.privateAllocation.infrastructure
         + a.privateAllocation.privateEquity = 100

\* The nodes that are the child of no node.
Roots(tree) ==
    {k \in DOMAIN tree.nodes :
        \A c \in DOMAIN tree.nodes : k \notin SeqToSet(tree.nodes[c].children)}

\* C10: when generatePortfolioData builds its tree (no exception before the
\* tree is complete) from settings whose two-way splits lie in 0..100 and
\* whose three private allocations sum to 100, the tree has exactly one
\* root, with allocation 100 and no parent, and the allocations of the
\* direct children of every asset class sum to 100.
C10_GeneratedTree ==
    (/\ ~lastGen.isNull
     /\ lastGen.throwAt \in {"none", "benchmarks"}
     /\ ValidSettings(lastGen.allocations)) =>
       /\ Roots(HeldTree) = {HeldTree.root}
       /\ HeldTree.nodes[HeldTree.root].allocation = 100
       /\ HeldTree.nodes[HeldTree.root].parent = NoParent
       /\ EveryClassSumsTo100(HeldTree)

\* C10 witness: a tree generated from valid settings other than the default
\* ones, one of whose classes has allocation 0.
C10_Witness ==
    /\ ~lastGen.isNull
    /\ lastGen.throwAt = "none"
    /\ ValidSettings(lastGen.allocations)
    /\ lastGen.allocations # defaultAllocations
    /\ Cardinality(DOMAIN HeldTree.nodes) = 28
    /\ \E k \in DOMAIN HeldTree.nodes :
          HeldTree.nodes[k].hasChildren /\ HeldTree.nodes[k].allocation = 0

-----------------------------------------------------------------------------
(* Properties: the worker protocol (Spec) *)

PostedFor(r) == {k \in DOMAIN posted : posted[k].req = r}

\* C4: for every calculate_risk request the worker has received and handled
\* it has posted exactly one message, a results message or an error message,
\* whether the computation completed or threw; for a request it has not yet
\* handled it has posted none.
C4_OneMessagePerRequest ==
    \A r \in 1..issued :
       IF r <= issued - Len(inbox)
       THEN /\ Cardinality(PostedFor(r)) = 1
            /\ \A k \in PostedFor(r) :
                  posted[k].type \in {"risk_calculation_results", "error"}
       ELSE PostedFor(r) = {}

\* C4 witness: the worker has answered one request with results and another
\* with an error.
C4_Witness ==
    /\ inbox = <<>>
    /\ \E k1, k2 \in DOMAIN posted :
          /\ posted[k1].type = "risk_calculation_results"
          /\ posted[k2].type = "error"

\* C5: a response to a request that is not the newest one issued is ignored
\* by the hook: its delivery changes neither results nor error nor loading.
C5_Claim ==
    [][(/\ outbox # <<>>
        /\ outbox' = Tail(outbox)
        /\ Head(outbox).req < issued)
       => (results' = results /\ error' = error /\ loading' = loading)]_vars

-----------------------------------------------------------------------------
(* Properties: broken parent chains (SpecTree) *)

\* Walking up from the parent id `parent`, some id does not resolve to a
\* node of the tree.
RECURSIVE ChainBreaks(_, _)
ChainBreaks(tree, parent) ==
    IF parent = NoParent THEN FALSE
    ELSE LET parentNode == findNodeById(tree, tree.root, parent)
         IN  IF parentNode = Null THEN TRUE
             ELSE ChainBreaks(tree, tree.nodes[parentNode].parent)

\* C11: a leaf whose walk through the parent references meets an id that
\* does not resolve to a node of the tree has absolute weight 0 in the
\* computation: the product accumulated up to the break is not used.
C11_Claim ==
    (~calc.isNull /\ calc.weights # <<>>) =>
       \A j \in DOMAIN calc.weights :
          ChainBreaks(HeldTree, HeldTree.nodes[extractAssets(HeldTree)[j]].parent)
             => calc.weights[j] = 0

-----------------------------------------------------------------------------
(* Properties: the metric functions (SpecMetric) *)

SingleFunctions ==
    {"calculateVolatility", "calculateMaxDrawdown", "calculateValueAtRisk",
     "calculateSharpeRatio"}

PairFunctions ==
    {"calculateTrackingError", "calculateCovariance", "calculateCorrelation",
     "calculateBeta", "calculateAlpha", "calculateInformationRatio"}

MetricCalled == ~calc.isNull /\ calc.fn \in SingleFunctions \cup PairFunctions

\* null, undefined or the empty series
Missing(series) == series = NullSeries \/ series = <<>>

\* The input of the call is missing or, for two series, of two lengths.
InvalidInput ==
    \/ Missing(calc.returns1)
    \/ /\ calc.fn \in PairFunctions
       /\ Missing(calc.returns2) \/ Len(calc.returns1) # Len(calc.returns2)

\* There is no snapshot, or no leaf of it has a return.
NoLeafReturns ==
    \/ portfolioData = NullValue
    \/ \A k \in AssetKeys(HeldTree) : HeldTree.nodes[k].returns = <<>>

\* C12: every metric function returns for every input and raises for none;
\* for a missing series, an empty series and two series of different lengths
\* the result is 0, and calculateRiskContributions returns the empty list
\* when there is no snapshot or no leaf has a return.
C12_Total ==
    /\ MetricCalled =>
          /\ calc.out.kind # "raised"
          /\ InvalidInput => calc.out = Zero
    /\ (~calc.isNull /\ calc.fn = "calculateRiskContributions") =>
          (NoLeafReturns => calc.out = <<>>)

\* The covariance of two series of different lengths has been computed.
C12_Witness ==
    /\ ~calc.isNull
    /\ calc.fn = "calculateCovariance"
    /\ ~Missing(calc.returns1) /\ ~Missing(calc.returns2)
    /\ Len(calc.returns1) < Len(calc.returns2)
    /\ calc.out = Zero

-----------------------------------------------------------------------------
(* Properties: the risk decomposition (SpecMetric) *)

\* The lists of per-leaf entries with a contribution and a percentage that
\* the remembered call produced: the result of calculateRiskContributions,
\* or the risk contributions and the calculation steps of the worker.
ContributionLists ==
    IF calc.isNull THEN {}
    ELSE IF calc.fn = "calculateRiskContributions" THEN {calc.out}
    ELSE IF calc.fn = "calculateRiskMetrics" /\ ~calc.threw
         THEN {calc.results.riskContributions, calc.results.calculationSteps}
    ELSE {}

SumOfContributions(items) ==
    SumNum([j \in DOMAIN items |-> items[j].contribution])

SumOfPercentages(items) ==
    SumNum([j \in DOMAIN items |-> items[j].contributionPercentage])

\* x <= 0
AtMostZero(x) == x.kind # "nan" /\ SignOf(x) <= 0

\* C13: when the contributions of a result sum to 0 or less every percentage
\* is 0; otherwise every percentage is contribution / sum * 100 and the
\* percentages sum to 100.
C13_Claim ==
    \A items \in ContributionLists :
       LET sum == SumOfContributions(items)
       IN  IF AtMostZero(sum)
           THEN \A j \in DOMAIN items : items[j].contributionPercentage = Zero
           ELSE /\ \A j \in DOMAIN items :
                     items[j].contributionPercentage =
                        Mul(Div(items[j].contribution, sum), Rat(100, 1))
                /\ SumOfPercentages(items) = Rat(100, 1)

\* The worker has computed a risk decomposition and RiskAnalysisView has
\* handed steps to its parent.
StepsHanded ==
    /\ ~calc.isNull
    /\ calc.fn = "calculateRiskMetrics"
    /\ ~calc.threw
    /\ ~calc.handed.isNull

\* C14: the steps handed to the calculations view list the leaves of
\* riskContributions in the same order, carry each leaf's contribution and
\* percentage, and in every step contribution = weight * marginalContribution.
C14_Claim ==
    StepsHanded =>
       LET steps == calc.handed.steps
           riskContributions == calc.results.riskContributions
       IN  /\ Len(steps) = Len(riskContributions)
           /\ \A j \in DOMAIN steps :
                 /\ steps[j].assetId = riskContributions[j].id
                 /\ steps[j].contribution = riskContributions[j].contribution
                 /\ steps[j].contributionPercentage =
                       riskContributions[j].contributionPercentage
                 /\ steps[j].contribution =
                       Mul(steps[j].weight, steps[j].marginalContribution)

-----------------------------------------------------------------------------
(* Properties: the three copies of the portfolio return loop (SpecTree) *)

\* The series the worker computes for the held snapshot, none when it throws.
WorkerSeries == calculateRiskMetrics(portfolioData).portfolioReturns

\* The series calculateRiskContributions computes for the held snapshot
\* before it takes the volatility, none when it returns early.
ContributionSeries ==
    LET assets == extractAssets(HeldTree)
    IN  IF Len(assets) = 0 THEN <<>>
        ELSE IF Len(HeldTree.nodes[assets[1]].returns) = 0 THEN <<>>
        ELSE contributionReturnsLoop(HeldTree, assets)

\* C15: for every snapshot the series returned by calculatePortfolioReturns,
\* the series of the worker's loop and the series of the loop inside
\* calculateRiskContributions are the same, entry by entry.
C15_SameSeries ==
    ~calc.isNull =>
       /\ calc.out = calculatePortfolioReturns(portfolioData)
       /\ calc.out = WorkerSeries
       /\ calc.out = ContributionSeries

\* The worker has computed a series of two periods from leaves of different
\* weights, one of them without a return in the second period.
C15_Witness ==
    /\ ~calc.isNull
    /\ calc.fn = "calculateRiskMetrics"
    /\ Len(calc.out) = 2
    /\ \E j, k \in DOMAIN calc.weights :
          /\ 0 < calc.weights[j] /\ calc.weights[j] < calc.weights[k]
          /\ Len(HeldTree.nodes[extractAssets(HeldTree)[j]].returns) = 1
    /\ calc.out[1] # calc.out[2]

-----------------------------------------------------------------------------
(* Properties: the Euler decomposition (SpecMetric) *)

RiskContributionsCalled ==
    /\ ~calc.isNull
    /\ calc.fn = "calculateRiskContributions"
    /\ portfolioData # NullValue

\* The portfolio series of the held snapshot, as numbers.
PortfolioSeries ==
    [i \in DOMAIN ContributionSeries |-> FractionNumber(ContributionSeries[i])] \o <<>>

LeafWeight(k) == WeightNumber(absoluteWeight(HeldTree, k))

LeafSeries(k) == ReturnNumbers(HeldTree.nodes[k].returns)

\* Every leaf has a return for exactly the periods of the portfolio series,
\* and every portfolio return is the sum of weight * return over the leaves.
ExactCombination ==
    /\ \A k \in AssetKeys(HeldTree) :
          Len(HeldTree.nodes[k].returns) = Len(PortfolioSeries)
    /\ \A i \in DOMAIN PortfolioSeries :
          PortfolioSeries[i] =
             Rat(SumOver(AssetKeys(HeldTree),
                         [k \in AssetKeys(HeldTree) |->
                            absoluteWeight(HeldTree, k) * HeldTree.nodes[k].returns[i]]),
                 WeightOne)

\* Sum over the leaves of weight * covariance(leaf, portfolio)
WeightedCovariance ==
    LET keys == extractAssets(HeldTree)
    IN  SumNum([j \in DOMAIN keys |->
                  Mul(LeafWeight(keys[j]),
                      calculateCovariance(LeafSeries(keys[j]), PortfolioSeries))])

\* C16: when the portfolio series is the exact weighted combination of the
\* leaf series, the contributions returned by calculateRiskContributions sum
\* to the portfolio volatility, and the sum over the leaves of
\* weight * covariance(leaf, portfolio) is the portfolio variance.
C16_Euler ==
    (RiskContributionsCalled /\ ExactCombination) =>
       /\ SumOfContributions(calc.out) = calculateVolatility(PortfolioSeries)
       /\ Len(PortfolioSeries) > 0 =>
             WeightedCovariance = jStatVariance(PortfolioSeries)

\* A decomposition of a portfolio of several weighted leaves with a
\* positive volatility has been computed.
C16_Witness ==
    /\ RiskContributionsCalled
    /\ ExactCombination
    /\ Len(calc.out) >= 2
    /\ \E j, k \in DOMAIN calc.out :
          /\ j # k
          /\ SignOf(calc.out[j].contribution) > 0
          /\ SignOf(calc.out[k].contribution) # 0
          /\ calc.out[j].contribution # calc.out[k].contribution
    /\ SignOf(calculateVolatility(PortfolioSeries)) > 0
    /\ SumOfContributions(calc.out) = calculateVolatility(PortfolioSeries)

-----------------------------------------------------------------------------
(* Properties: value at risk and maximum drawdown (SpecMetric) *)

\* calculateValueAtRisk has been called at 99% on a series with an entry.
ValueAtRisk99 ==
    /\ ~calc.isNull
    /\ calc.fn = "calculateValueAtRisk"
    /\ calc.param = Rat(99, 1)
    /\ ~Missing(calc.returns1)

\* C17: for a series with at least one entry the value at risk at 99% is at
\* least the value at risk of the same series at 95%.
C17_Monotone ==
    ValueAtRisk99 =>
       ~Gt(calculateValueAtRisk(calc.returns1, 95), calc.out)

\* A series for which the two indices differ and the value at risk at 99% is
\* the larger one.
C17_Witness ==
    /\ ValueAtRisk99
    /\ Len(calc.returns1) >= 20
    /\ Gt(calc.out, calculateValueAtRisk(calc.returns1, 95))

\* calculateMaxDrawdown has been called on a series with an entry in which
\* every return is above -1 (no period loses 100% or more).
DrawdownOfSurvivor ==
    /\ ~calc.isNull
    /\ calc.fn = "calculateMaxDrawdown"
    /\ ~Missing(calc.returns1)
    /\ \A i \in DOMAIN calc.returns1 : Gt(calc.returns1[i], Rat(-1, 1))

\* The running product of 1 + return never goes down; the factors being
\* positive, that is: no return after the first is below 0.
NeverDeclines(returns) ==
    \A i \in DOMAIN returns : i > 1 => ~Gt(Zero, returns[i])

\* C18: for a series in which no return is -1 or less the maximum drawdown
\* is a number between 0 and 1, and it is 0 when the cumulative value never
\* declines.
C18_Drawdown ==
    DrawdownOfSurvivor =>
       /\ calc.out.kind = "num"
       /\ ~Gt(Zero, calc.out)
       /\ ~Gt(calc.out, Rat(1, 1))
       /\ NeverDeclines(calc.returns1) => calc.out = Zero

\* A series that declines after a rise: the drawdown is strictly between 0
\* and 1.
C18_Witness ==
    /\ DrawdownOfSurvivor
    /\ Len(calc.returns1) >= 2
    /\ ~NeverDeclines(calc.returns1)
    /\ Gt(calc.out, Zero)
    /\ Gt(Rat(1, 1), calc.out)

-----------------------------------------------------------------------------
(* Properties: the timeframe of a snapshot (SpecGen) *)

\* The number of calendar months from one date to another.
MonthsBetween(startDate, endDate) ==
    LET s == CivilFromDays(startDate)
        e == CivilFromDays(endDate)
    IN  (e.y - s.y) * 12 + (e.m - s.m)

\* The timeframe of the snapshot spans as many months as every leaf has
\* returns.
TimeframeFits(data) ==
    \A k \in AssetKeys(data.wholePortfolio) :
       MonthsBetween(data.timeframe.startDate, data.timeframe.endDate)
          = Len(data.wholePortfolio.nodes[k].returns)

\* C19: in the snapshot generatePortfolioData returned and in the snapshot a
\* filter call returned from it, for any period, the months from startDate
\* to endDate are as many as the returns of every leaf, and the filter call
\* did not change endDate.
C19_Claim ==
    /\ ~lastGen.isNull => TimeframeFits(portfolioData)
    /\ ~lastFilter.isNull =>
          /\ TimeframeFits(lastFilter.ret)
          /\ lastFilter.ret.timeframe.endDate = lastFilter.before.timeframe.endDate

\* The whole 30-day months from January 1 of the year of the snapshot's end
\* date to that end date.
SnapshotYearToDate(data) ==
    (data.timeframe.endDate - StartOfYear(data.timeframe.endDate)) \div 30

\* C20: after a YTD filter call the window of the snapshot returned starts
\* as many months before its end date as there are whole 30-day months from
\* January 1 of the end date's year to the end date of the snapshot passed
\* in, whatever the date of the call.
C20_Claim ==
    (FilterRan /\ lastFilter.timePeriod = "YTD") =>
       lastFilter.ret.timeframe.startDate =
          SetMonthBack(lastFilter.before.timeframe.endDate,
                       SnapshotYearToDate(lastFilter.before))

-----------------------------------------------------------------------------
(* Properties: the length of the series that are analysed (Spec) *)

\* The request for the snapshot the App holds: the newest one in the
\* worker's queue.
NewestRequest == inbox[Len(inbox)]

\* C21: whatever period is selected, the snapshot posted to the risk worker
\* for a generated 120-month dataset has 120 entries in every leaf series
\* and in every benchmark series.
C21_Claim ==
    (inbox # <<>> /\ lastGen.throwAt = "none") =>
       SeriesLengths(NewestRequest.data.portfolioData) = {120}

-----------------------------------------------------------------------------
(* Properties: slider changes and regeneration (Spec) *)

\* C22: slider input is debounced: the step that takes a slider change
\* updates the allocations shown and does not itself regenerate the data or
\* issue a risk request; regeneration is left to a later step, after the
\* changes have stopped, so that a burst of changes regenerates once.
C22_Claim ==
    [][allocations' # allocations =>
          (lastGen' = lastGen /\ issued' = issued)]_vars

-----------------------------------------------------------------------------
(* Properties: the worked example of the portfolio returns (SpecTree) *)

\* calculatePortfolioReturns has been applied to the worked example.
ExampleComputed ==
    /\ portfolioData = ExampleSnapshot
    /\ ~calc.isNull
    /\ calc.fn = "calculatePortfolioReturns"

\* The series computed has these values, in 1e-4.
ComputedValues(values) ==
    /\ Len(calc.out) = Len(values)
    /\ \A i \in DOMAIN values : calc.out[i].num = values[i] * calc.out[i].den

\* C23 as claimed: the three leaves with weights [0.5, 0.3, 0.2] and returns
\* [0.01, 0.02], [0.00, 0.01], [-0.01, 0.03] give portfolioReturns =
\* [0.003, 0.018].
C23_Claim == ExampleComputed => ComputedValues(<<30, 180>>)

\* C23, amended: the three leaves with weights [0.5, 0.3, 0.2] and returns
\* [0.01, 0.02], [0.00, 0.01], [-0.01, 0.03] give portfolioReturns =
\* [0.003, 0.019], the weighted sums 0.5*0.01 + 0.3*0.00 - 0.2*0.01 and
\* 0.5*0.02 + 0.3*0.01 + 0.2*0.03.
C23_Example == ExampleComputed => ComputedValues(<<30, 190>>)

\* C23 witness: the example has been computed, with the weights 0.5, 0.3
\* and 0.2 and two periods.
C23_Witness ==
    /\ ExampleComputed
    /\ calc.weights = <<5 * (WeightOne \div 10), 3 * (WeightOne \div 10),
                        2 * (WeightOne \div 10)>>
    /\ Len(calc.out) = 2

-----------------------------------------------------------------------------
(* useMetricsCache.ts: the cache hook on its own.  A cached value is a      *)
(* number, a boolean or a string; n is the number, 0 or 1 for false and     *)
(* true, and the length of the string.                                      *)

dataVars == <<now, portfolioData, lastGenerated, lastFilter, lastGen, calc>>

\* The App and its data play no part.
DataIdle ==
    /\ now = 1
    /\ portfolioData = NullValue
    /\ lastFilter = NullValue
    /\ lastGen = NullValue
    /\ calc = NullValue

CacheKeys == {"p1|1Y|Market", "p1|3Y|Market"}

CacheValues ==
    { [isNull |-> FALSE, type |-> t, n |-> n] :
        t \in {"number", "boolean", "string"}, n \in {0, 1} }

\* A value that "||" takes for false: 0, false and the empty string (and
\* undefined, the value of a key the object does not have).
Falsy(v) == v.n = 0

\* useState<Record<string, T>>({})
CacheEmpty == [k \in {} |-> NullValue]

\* return cache[key] || null
getCachedValue(store, key) ==
    IF key \in DOMAIN store /\ ~Falsy(store[key]) THEN store[key] ELSE NullValue

\* { ...prevCache, [key]: value }
setCachedValue(store, key, value) ==
    [k \in DOMAIN store \cup {key} |-> IF k = key THEN value ELSE store[k]]

\* const newCache = { ...prevCache }; delete newCache[key]
clearCacheKey(store, key) == [k \in DOMAIN store \ {key} |-> store[k]]

\* The state of the hook, and what the last call returned when it was
\* getCachedValue.
CacheState(store, got) == [isNull |-> FALSE, store |-> store, got |-> got]

CacheInit ==
    /\ AppIdle
    /\ DataIdle
    /\ slider = NullValue
    /\ page = NullValue
    /\ walk = NullValue
    /\ cache = CacheState(CacheEmpty, NullValue)

GetCachedValue ==
    /\ \E key \in CacheKeys :
         cache' = CacheState(cache.store,
                     [isNull |-> FALSE, key |-> key,
                      value |-> getCachedValue(cache.store, key)])
    /\ UNCHANGED <<dataVars, allocations, selectedTimePeriod, results, loading,
                   error, inbox, outbox, posted, issued, slider, page, walk>>

SetCachedValue ==
    /\ \E key \in CacheKeys, value \in CacheValues :
         cache' = CacheState(setCachedValue(cache.store, key, value), NullValue)
    /\ UNCHANGED <<dataVars, allocations, selectedTimePeriod, results, loading,
                   error, inbox, outbox, posted, issued, slider, page, walk>>

ClearCache ==
    /\ cache' = CacheState(CacheEmpty, NullValue)
    /\ UNCHANGED <<dataVars, allocations, selectedTimePeriod, results, loading,
                   error, inbox, outbox, posted, issued, slider, page, walk>>

ClearCacheKey ==
    /\ \E key \in CacheKeys :
         cache' = CacheState(clearCacheKey(cache.store, key), NullValue)
    /\ UNCHANGED <<dataVars, allocations, selectedTimePeriod, results, loading,
                   error, inbox, outbox, posted, issued, slider, page, walk>>

CacheNext == GetCachedValue \/ SetCachedValue \/ ClearCache \/ ClearCacheKey

SpecCache == CacheInit /\ [][CacheNext]_vars

-----------------------------------------------------------------------------
(* Properties: the metrics cache (SpecCache) *)

\* The last call was getCachedValue.
ValueRead == ~cache.got.isNull

\* C24: getCachedValue(k) returns the value stored under k, whatever value
\* of the cached type it is (0, false and the empty string included), and
\* returns null only for a key that holds no value.
C24_Claim ==
    ValueRead =>
       /\ cache.got.key \in DOMAIN cache.store =>
             cache.got.value = cache.store[cache.got.key]
       /\ cache.got.value = NullValue => cache.got.key \notin DOMAIN cache.store

-----------------------------------------------------------------------------
(* Properties: the hook once the worker has answered everything (Spec) *)

\* Every request issued has been answered and every answer delivered.
Settled == issued > 0 /\ inbox = <<>> /\ outbox = <<>>

\* The worker's answer to the newest request.
NewestAnswer == posted[CHOOSE k \in DOMAIN posted : posted[k].req = issued]

\* C25: once every outstanding response has been received, in request
\* order, the hook's error is non-null exactly when the newest request
\* failed, and when it succeeded the hook's results are its results.
C25_Claim ==
    Settled =>
       /\ ~error.isNull <=> NewestAnswer.type = "error"
       /\ NewestAnswer.type = "risk_calculation_results" =>
             (~results.isNull /\ results.req = issued)

\* ---------------------------------------------------------------------
\* ThreePartSlider (AllocationControls.tsx): two dividers dragged over a
\* bar of three parts [realEstate, infrastructure, privateEquity].  The
\* parent stores every emitted triple and hands it back as `values`.
\* isDragging is the empty set for null, else the set of the one divider
\* index held.
\* ---------------------------------------------------------------------
SliderPositions == 0..100

SliderStarts == {<<a, b, 100 - a - b>> : a \in 0..100, b \in 0..100} \cap (Nat \X Nat \X Nat)

SliderState(values, isDragging, emitted) == [isNull |-> FALSE, values |-> values, isDragging |-> isDragging, emitted |-> emitted]

Max(a, b) == IF a > b THEN a ELSE b

moveFirstDivider(values, position) == <<Min(position, 95 - values[3]), (values[1] + values[2]) - Min(position, 95 - values[3]), values[3]>>

moveSecondDivider(values, position) == <<values[1], Max(position, values[1] + 5) - values[1], 100 - Max(position, values[1] + 5)>>

sliderMouseMove(values, isDragging, position) == IF isDragging = {0} THEN moveFirstDivider(values, position) ELSE moveSecondDivider(values, position)

SliderInit ==
    /\ AppIdle
    /\ DataIdle
    /\ cache = NullValue
    /\ page = NullValue
    /\ walk = NullValue
    /\ \E values \in SliderStarts : slider = SliderState(values, {}, FALSE)

SliderMouseDown ==
    /\ \E index \in {0, 1} :
         slider' = SliderState(slider.values, {index}, slider.emitted)
    /\ UNCHANGED <<dataVars, allocations, selectedTimePeriod, results, loading,
                   error, inbox, outbox, posted, issued, cache, page, walk>>

SliderMouseMove ==
    /\ slider.isDragging # {}
    /\ \E position \in SliderPositions :
         slider' = SliderState(sliderMouseMove(slider.values, slider.isDragging, position),
                               slider.isDragging, TRUE)
    /\ UNCHANGED <<dataVars, allocations, selectedTimePeriod, results, loading,
                   error, inbox, outbox, posted, issued, cache, page, walk>>

SliderMouseUp ==
    /\ slider.isDragging # {}
    /\ slider' = SliderState(slider.values, {}, slider.emitted)
    /\ UNCHANGED <<dataVars, allocations, selectedTimePeriod, results, loading,
                   error, inbox, outbox, posted, issued, cache, page, walk>>

SliderNext == SliderMouseDown \/ SliderMouseMove \/ SliderMouseUp

SpecSlider == SliderInit /\ [][SliderNext]_vars

\* C26: starting from integers summing to 100, after any sequence of
\* drags of either divider the emitted triple still sums to 100, has no
\* negative part, and infrastructure is at least 5.
C26_Claim ==
    slider.emitted =>
       /\ slider.values[1] + slider.values[2] + slider.values[3] = 100
       /\ \A i \in 1..3 : slider.values[i] >= 0
       /\ slider.values[2] >= 5

\* ---------------------------------------------------------------------
\* SliderTestPage (SliderTestPage.tsx): three numbers, the active section
\* of the stacked bar, and an effect with dependencies
\* [realEstate, infrastructure].  `pending` says that a handler changed a
\* dependency and the effect has not run yet; React runs a pending effect
\* before the next event is handled.  handleCustomSliderChange (46-55) is
\* called from nowhere and is left out.
\* ---------------------------------------------------------------------
Sections == {"realEstate", "infrastructure", "privateEquity"}

\* handleRealEstateChange is explored while |infrastructure| <= MaxPart
MaxPart == 100

\* values an <input type="range" min="5" max="90"> can report
RangeInputs == {5, 35, 60, 90}

\* parseInt(e.target.value, 10) || 0 of a number input (0: empty text)
TypedInputs == {0, 5, 35, 60, 90, 120}

PageState(re, inf, pe, section, pending, acted) == [isNull |-> FALSE, realEstate |-> re, infrastructure |-> inf, privateEquity |-> pe, activeSection |-> section, pending |-> pending, acted |-> acted]

\* the state after a handler's setters: the effect is due when a
\* dependency changed
pageAfter(p, re, inf, pe) == PageState(re, inf, pe, p.activeSection, re # p.realEstate \/ inf # p.infrastructure, TRUE)

clampInput(raw) == Min(90, Max(5, raw))

\* Math.round(num / den) for den > 0 in exact arithmetic: floor(num / den + 1/2)
MathRoundRatio(num, den) == (2 * num + den) \div (2 * den)

IsPowerOfTwo(n) == \E e \in 0..12 : n = Pow(2, e)

\* Math.round(remaining * (part / total)) computed in doubles, total > 0.
\* The quotient part / total is rounded to a double before it is
\* multiplied: when the exact product lies halfway between two integers
\* and the quotient is not a dyadic fraction, the rounding error of the
\* quotient decides which neighbour Math.round returns, and both are kept.
\* Everywhere else the double result equals the exact one.
roundedShares(remaining, part, total) == IF (2 * remaining * part) % total = 0 /\ (remaining * part) % total # 0 /\ ~IsPowerOfTwo(total \div Gcd(Abs(part), total)) THEN {MathRoundRatio(remaining * part, total) - 1, MathRoundRatio(remaining * part, total)} ELSE {MathRoundRatio(remaining * part, total)}

\* the sign of the divisor moved to the dividend
sharesOf(remaining, part, total) == IF total > 0 THEN roundedShares(remaining, part, total) ELSE roundedShares(remaining, 0 - part, 0 - total)

activeSliderChange(p, value) == IF p.activeSection = "realEstate" THEN pageAfter(p, value, Max(5, p.infrastructure - (value - p.realEstate)), p.privateEquity) ELSE IF p.activeSection = "infrastructure" THEN pageAfter(p, p.realEstate, value, p.privateEquity) ELSE pageAfter(p, p.realEstate, Max(5, 100 - value - p.realEstate), value)

realEstateChange(p, value, newInfrastructure) == pageAfter(p, value, newInfrastructure, p.privateEquity)

infrastructureChange(p, value) == pageAfter(p, p.realEstate, value, 100 - p.realEstate - value)

privateEquityChange(p, value) == pageAfter(p, p.realEstate, 100 - p.realEstate - value, value)

sumEffect(p) == PageState(p.realEstate, p.infrastructure, IF p.realEstate + p.infrastructure + p.privateEquity # 100 THEN 100 - p.realEstate - p.infrastructure ELSE p.privateEquity, p.activeSection, FALSE, p.acted)

PageInit ==
    /\ AppIdle
    /\ DataIdle
    /\ cache = NullValue
    /\ slider = NullValue
    /\ walk = NullValue
    /\ page = PageState(35, 35, 30, "realEstate", FALSE, FALSE)

SetActiveSection ==
    /\ ~page.pending
    /\ \E section \in Sections :
         page' = PageState(page.realEstate, page.infrastructure, page.privateEquity,
                           section, FALSE, page.acted)
    /\ UNCHANGED <<dataVars, allocations, selectedTimePeriod, results, loading,
                   error, inbox, outbox, posted, issued, cache, slider, walk>>

HandleActiveSliderChange ==
    /\ ~page.pending
    /\ \E value \in RangeInputs : page' = activeSliderChange(page, value)
    /\ UNCHANGED <<dataVars, allocations, selectedTimePeriod, results, loading,
                   error, inbox, outbox, posted, issued, cache, slider, walk>>

HandleRealEstateChange ==
    /\ ~page.pending
    /\ page.infrastructure + page.privateEquity # 0
    /\ page.infrastructure \in (0 - MaxPart)..MaxPart
    /\ \E raw \in TypedInputs :
         \E newInfrastructure \in sharesOf(100 - clampInput(raw), page.infrastructure,
                                           page.infrastructure + page.privateEquity) :
            page' = realEstateChange(page, clampInput(raw), newInfrastructure)
    /\ UNCHANGED <<dataVars, allocations, selectedTimePeriod, results, loading,
                   error, inbox, outbox, posted, issued, cache, slider, walk>>

HandleInfrastructureChange ==
    /\ ~page.pending
    /\ \E raw \in TypedInputs : page' = infrastructureChange(page, clampInput(raw))
    /\ UNCHANGED <<dataVars, allocations, selectedTimePeriod, results, loading,
                   error, inbox, outbox, posted, issued, cache, slider, walk>>

HandlePrivateEquityChange ==
    /\ ~page.pending
    /\ \E raw \in TypedInputs : page' = privateEquityChange(page, clampInput(raw))
    /\ UNCHANGED <<dataVars, allocations, selectedTimePeriod, results, loading,
                   error, inbox, outbox, posted, issued, cache, slider, walk>>

SumEffect ==
    /\ page.pending
    /\ page' = sumEffect(page)
    /\ UNCHANGED <<dataVars, allocations, selectedTimePeriod, results, loading,
                   error, inbox, outbox, posted, issued, cache, slider, walk>>

PageNext == SetActiveSection \/ HandleActiveSliderChange \/ HandleRealEstateChange \/ HandleInfrastructureChange \/ HandlePrivateEquityChange \/ SumEffect

SpecPage == PageInit /\ [][PageNext]_vars

\* C27: on the slider test page, after any sequence of changes through
\* the handlers and once the correcting effect has run, the three values
\* sum to 100 and each lies in [0, 100].
C27_Claim ==
    (page.acted /\ ~page.pending) =>
       /\ page.realEstate + page.infrastructure + page.privateEquity = 100
       /\ \A v \in {page.realEstate, page.infrastructure, page.privateEquity} : v \in 0..100

\* ---------------------------------------------------------------------
\* The App's data parameters on their own: generations from the controls
\* and allocation updates, one request longer than in Spec, with the
\* worker never scheduled (its requests wait in the inbox).
\* ---------------------------------------------------------------------
ControlsGenerate ==
    /\ issued > 0 /\ issued < MaxRequests + 1
    /\ generateData

AllocationsUpdate ==
    /\ issued > 0 /\ issued < MaxRequests + 1
    /\ updateAllocations

ParamsNext == Mount \/ ControlsGenerate \/ AllocationsUpdate

SpecParams == AppInit /\ [][ParamsNext]_vars

\* C28: after any sequence of generations and allocation updates, the
\* dataset the application holds was generated with the scenario and the
\* volatility level of the most recent generation from the data generator
\* controls, the ones its 'Current Data Parameters' panel shows.
C28_Claim ==
    /\ lastGen.scenario = lastGenerated.scenario
    /\ lastGen.volatilityLevel = lastGenerated.volatility
    /\ portfolioData.scenario = lastGenerated.scenario
    /\ portfolioData.volatilityLevel = lastGenerated.volatility

\* ---------------------------------------------------------------------
\* The parent walk of one asset, one iteration of "while (parent)" at a
\* time (performanceCalculations.ts 82-94; the same loop in
\* riskCalculations.ts 316-330 and in the worker).  visited lists the
\* ancestors whose allocation has been multiplied in, in order.
\* ---------------------------------------------------------------------
MaxWalk == 4           \* iterations of the walk that are explored

\* r > c > a and r > b, with the parent references of r, c and a given
WalkTree(rootParent, classParent, assetParent) == MakeTree("r", << AssetClassNode("r", 100, rootParent, <<"c", "b">>), AssetClassNode("c", 100, classParent, <<"a">>), AssetNode("a", 50, assetParent, <<100>>), AssetNode("b", 50, "r", <<200>>) >>)

WalkTrees == {WalkTree(rp, cp, ap) : rp \in {NoParent, "r", "c"}, cp \in {"r", "c", "gone", NoParent}, ap \in {"c", "r", NoParent}}

WalkState(tree, asset, weight, parent, visited, running) == [isNull |-> FALSE, tree |-> tree, asset |-> asset, weight |-> weight, parent |-> parent, visited |-> visited, running |-> running]

\* the levels below a node: 0 for a node without children
RECURSIVE levelsBelow(_, _)
RECURSIVE levelsBelowAll(_, _)
levelsBelow(tree, key) == IF tree.nodes[key].hasChildren /\ Len(tree.nodes[key].children) > 0 THEN 1 + levelsBelowAll(tree, tree.nodes[key].children) ELSE 0
levelsBelowAll(tree, keys) == IF keys = <<>> THEN 0 ELSE Max(levelsBelow(tree, Head(keys)), levelsBelowAll(tree, Tail(keys)))

\* let weight = asset.allocation / 100; let parent = asset.parent;
WalkInit ==
    /\ AppIdle
    /\ DataIdle
    /\ cache = NullValue
    /\ slider = NullValue
    /\ page = NullValue
    /\ \E tree \in WalkTrees :
         \E j \in DOMAIN extractAssets(tree) :
            walk = WalkState(tree, extractAssets(tree)[j],
                             FirstFactor(tree.nodes[extractAssets(tree)[j]].allocation),
                             tree.nodes[extractAssets(tree)[j]].parent, <<>>, TRUE)

\* parent is truthy and resolves: weight *= parentNode.allocation / 100;
\* parent = parentNode.parent
WalkStep ==
    /\ walk.running
    /\ walk.parent # NoParent
    /\ Len(walk.visited) < MaxWalk
    /\ \E parentNode \in {findNodeById(walk.tree, walk.tree.root, walk.parent)} :
         /\ parentNode # Null
         /\ walk' = WalkState(walk.tree, walk.asset,
                       TimesFactor(walk.weight, walk.tree.nodes[parentNode].allocation),
                       walk.tree.nodes[parentNode].parent,
                       Append(walk.visited, parentNode), TRUE)
    /\ UNCHANGED <<dataVars, allocations, selectedTimePeriod, results, loading,
                   error, inbox, outbox, posted, issued, cache, slider, page>>

\* parent is truthy and does not resolve: break
WalkBreak ==
    /\ walk.running
    /\ walk.parent # NoParent
    /\ findNodeById(walk.tree, walk.tree.root, walk.parent) = Null
    /\ walk' = WalkState(walk.tree, walk.asset, walk.weight, walk.parent,
                         walk.visited, FALSE)
    /\ UNCHANGED <<dataVars, allocations, selectedTimePeriod, results, loading,
                   error, inbox, outbox, posted, issued, cache, slider, page>>

\* parent is undefined: the loop condition fails
WalkExit ==
    /\ walk.running
    /\ walk.parent = NoParent
    /\ walk' = WalkState(walk.tree, walk.asset, walk.weight, walk.parent,
                         walk.visited, FALSE)
    /\ UNCHANGED <<dataVars, allocations, selectedTimePeriod, results, loading,
                   error, inbox, outbox, posted, issued, cache, slider, page>>

WalkNext == WalkStep \/ WalkBreak \/ WalkExit

SpecWalk == WalkInit /\ [][WalkNext]_vars

\* C30: the parent walk visits each ancestor at most once and takes no
\* more steps than the tree is deep, also when a parent reference names
\* the node itself or one of its descendants.
C30_Claim ==
    /\ Len(walk.visited) <= levelsBelow(walk.tree, walk.tree.root)
    /\ \A i, j \in DOMAIN walk.visited : walk.visited[i] = walk.visited[j] => i = j

\* A risk request for the period 1M on a generated 120-month snapshot: the
\* hook posts the filtered snapshot, every series of which has one entry.
SingleObservationRequest ==
    /\ ~lastGen.isNull /\ lastGen.months = 120 /\ lastGen.throwAt = "none"
    /\ ~lastFilter.isNull /\ ~lastFilter.threw /\ lastFilter.timePeriod = "1M"

\* C29: for every selectable period, 1M included, the worker's result on
\* a generated 120-month snapshot holds defined numbers only; stated for
\* 1M and the portfolio volatility, the first metric computed.
C29_Claim ==
    SingleObservationRequest =>
       calculateVolatility(FractionNumbers(workerReturnsLoop(lastFilter.ret.wholePortfolio, extractAssets(lastFilter.ret.wholePortfolio)))).kind = "num"

====
